---- MODULE Spec2Model ----
(***************************************************************************)
(* Netball tournament statistics: the data-access layer (DatabaseManager)  *)
(* and the schema manager (DatabaseSchema) over an embedded SQLite file.   *)
(*                                                                         *)
(* store      the committed content of the database file: a function from  *)
(*            the names of the tables that exist to their sets of rows     *)
(* txn        the open transaction of the connection: {} when none, else   *)
(*            {working copy}                                               *)
(* connection DatabaseManager.connection: {} for None, else {handle}       *)
(* live       how many connections to the file are open in the engine      *)
(* last       what the last call received and returned or raised           *)
(* scope      "in" while the caller is inside a `with manager:` block        *)
(* file       whether the database file exists on disk                     *)
(* ui         the management widget: whether it is shown, the rows its two *)
(*            table models hold, the selected rows and the open dialog     *)
(***************************************************************************)
EXTENDS Integers, Sequences, FiniteSets, TLC

VARIABLES store, txn, connection, live, last, scope, file, ui

vars == <<store, txn, connection, live, last, scope, file, ui>>

(***************************************************************************)
(* Bounds of the model and the values callers pass.                        *)
(***************************************************************************)
MaxOpens == 2

DivisionIds == {1, 2}
TeamIds == {1, 2}
PlayerIds == {1}
MatchIds == {1}
StatIds == {1, 2}

DivisionNames == {"Premier Division", "Division 1"}
TeamNames == {"Red Dragons"}
PlayerNames == {"Alice Johnson"}
Positions == {"Goal Shooter"}
Dates == {"2024-01-15"}

(***************************************************************************)
(* The schema that create_tables declares.                                 *)
(***************************************************************************)
Tables == <<"divisions", "teams", "players", "matches", "player_stats">>

TableNames == {Tables[i] : i \in DOMAIN Tables}

StatCounters ==
    {"attempts", "goals", "center_passes", "tips", "rebounds",
     "interceptions", "turnovers"}

Columns(t) ==
    CASE t = "divisions" -> {"id", "name"}
      [] t = "teams" -> {"id", "name", "division_id"}
      [] t = "players" -> {"id", "name", "position", "team_id"}
      [] t = "matches" -> {"id", "date", "division_id", "team1_id", "team2_id",
                           "team1_score", "team2_score"}
      [] t = "player_stats" -> {"id", "player_id", "match_id"} \cup StatCounters

\* The columns declared with DEFAULT 0; every other column but id is NOT NULL.
Defaults(t) ==
    CASE t = "matches" -> [c \in {"team1_score", "team2_score"} |-> 0]
      [] t = "player_stats" -> [c \in StatCounters |-> 0]
      [] OTHER -> <<>>

\* The keys with matches.division_id declared without ON DELETE CASCADE.
ForeignKeysMatchDivisionNoAction ==
    {[child |-> "teams", column |-> "division_id", parent |-> "divisions",
      on_delete |-> "CASCADE"],
     [child |-> "players", column |-> "team_id", parent |-> "teams",
      on_delete |-> "CASCADE"],
     [child |-> "matches", column |-> "division_id", parent |-> "divisions",
      on_delete |-> "NO ACTION"],
     [child |-> "matches", column |-> "team1_id", parent |-> "teams",
      on_delete |-> "CASCADE"],
     [child |-> "matches", column |-> "team2_id", parent |-> "teams",
      on_delete |-> "CASCADE"],
     [child |-> "player_stats", column |-> "player_id", parent |-> "players",
      on_delete |-> "CASCADE"],
     [child |-> "player_stats", column |-> "match_id", parent |-> "matches",
      on_delete |-> "CASCADE"]}

\* The keys without the one on matches.team2_id.
ForeignKeysWithoutTeam2 ==
    {[child |-> "teams", column |-> "division_id", parent |-> "divisions",
      on_delete |-> "CASCADE"],
     [child |-> "players", column |-> "team_id", parent |-> "teams",
      on_delete |-> "CASCADE"],
     [child |-> "matches", column |-> "division_id", parent |-> "divisions",
      on_delete |-> "CASCADE"],
     [child |-> "matches", column |-> "team1_id", parent |-> "teams",
      on_delete |-> "CASCADE"],
     [child |-> "player_stats", column |-> "player_id", parent |-> "players",
      on_delete |-> "CASCADE"],
     [child |-> "player_stats", column |-> "match_id", parent |-> "matches",
      on_delete |-> "CASCADE"]}

\* The keys without the one on player_stats.match_id.
ForeignKeysWithoutStatMatch ==
    {[child |-> "teams", column |-> "division_id", parent |-> "divisions",
      on_delete |-> "CASCADE"],
     [child |-> "players", column |-> "team_id", parent |-> "teams",
      on_delete |-> "CASCADE"],
     [child |-> "matches", column |-> "division_id", parent |-> "divisions",
      on_delete |-> "CASCADE"],
     [child |-> "matches", column |-> "team1_id", parent |-> "teams",
      on_delete |-> "CASCADE"],
     [child |-> "matches", column |-> "team2_id", parent |-> "teams",
      on_delete |-> "CASCADE"],
     [child |-> "player_stats", column |-> "player_id", parent |-> "players",
      on_delete |-> "CASCADE"]}

ForeignKeys ==
    {[child |-> "teams", column |-> "division_id", parent |-> "divisions",
      on_delete |-> "CASCADE"],
     [child |-> "players", column |-> "team_id", parent |-> "teams",
      on_delete |-> "CASCADE"],
     [child |-> "matches", column |-> "division_id", parent |-> "divisions",
      on_delete |-> "CASCADE"],
     [child |-> "matches", column |-> "team1_id", parent |-> "teams",
      on_delete |-> "CASCADE"],
     [child |-> "matches", column |-> "team2_id", parent |-> "teams",
      on_delete |-> "CASCADE"],
     [child |-> "player_stats", column |-> "player_id", parent |-> "players",
      on_delete |-> "CASCADE"],
     [child |-> "player_stats", column |-> "match_id", parent |-> "matches",
      on_delete |-> "CASCADE"]}

\* The keys without UNIQUE on divisions.name.
UniqueKeysWithoutName(t) ==
    CASE t = "player_stats" -> {{"id"}, {"player_id", "match_id"}}
      [] OTHER -> {{"id"}}

\* The keys without UNIQUE(player_id, match_id).
UniqueKeysWithoutPair(t) ==
    CASE t = "divisions" -> {{"id"}, {"name"}}
      [] OTHER -> {{"id"}}

\* PRIMARY KEY and UNIQUE: the column sets no two rows of a table may share.
UniqueKeys(t) ==
    CASE t = "divisions" -> {{"id"}, {"name"}}
      [] t = "player_stats" -> {{"id"}, {"player_id", "match_id"}}
      [] OTHER -> {{"id"}}

\* A schema without the CHECK.
CheckConstraintNone(t, row) == TRUE

\* CHECK (team1_id != team2_id)
CheckConstraint(t, row) == t = "matches" => row.team1_id # row.team2_id

(***************************************************************************)
(* The storage engine: one statement applied to a database.  A result is   *)
(* the error raised ("none" when the statement succeeds), the database     *)
(* after the statement, and the cursor's rowcount.  A statement that fails *)
(* leaves the database as it found it.                                     *)
(***************************************************************************)
Ok(db, n) == [error |-> "none", db |-> db, rowcount |-> n]

Failed(db, kind) == [error |-> kind, db |-> db, rowcount |-> -1]

RowIds(rows) == {r.id : r \in rows}

\* The rowid SQLite assigns when the statement gives no id.
NextRowid(rows) ==
    IF rows = {} THEN 1
    ELSE (CHOOSE m \in RowIds(rows) : \A k \in RowIds(rows) : k <= m) + 1

NotNullViolation(t, values) ==
    \E c \in Columns(t) \ {"id"} : c \notin DOMAIN values /\ c \notin DOMAIN Defaults(t)

\* A row whose id is always chosen by the engine.
NewRowAutoId(t, values, rows) ==
    [c \in Columns(t) |->
        IF c = "id" THEN NextRowid(rows)
        ELSE IF c \in DOMAIN values THEN values[c]
        ELSE Defaults(t)[c]]

NewRow(t, values, rows) ==
    [c \in Columns(t) |->
        IF c \in DOMAIN values THEN values[c]
        ELSE IF c = "id" THEN NextRowid(rows)
        ELSE Defaults(t)[c]]

UniqueViolation(t, row, others) ==
    \E k \in UniqueKeys(t) : \E o \in others : \A c \in k : o[c] = row[c]

\* A statement that checks a reference of table u cannot be prepared while
\* the referenced table is missing ("no such table").
MissingParent(db, fk_on, u) ==
    fk_on /\ \E fk \in ForeignKeys : fk.child = u /\ fk.parent \notin DOMAIN db

\* The tables S with the tables that reference one of them through an
\* ON DELETE CASCADE key.
Referencing(db, S) ==
    S \cup {fk.child : fk \in {f \in ForeignKeys : /\ f.on_delete = "CASCADE"
                                                  /\ f.parent \in S
                                                  /\ f.child \in DOMAIN db}}

\* The tables a delete in the tables S reaches through the cascades.
RECURSIVE Reached(_, _)
Reached(db, S) == IF Referencing(db, S) = S THEN S ELSE Reached(db, Referencing(db, S))

\* A parent lookup that finds a parent for every reference.
HasParentAlways(db, fk, row) == TRUE

HasParent(db, fk, row) ==
    /\ fk.parent \in DOMAIN db
    /\ \E p \in db[fk.parent] : p.id = row[fk.column]

\* An insert that counts a row it skipped.
InsertRowCountingIgnored(db, fk_on, t, row, or_ignore) ==
    IF ~CheckConstraint(t, row) \/ UniqueViolation(t, row, db[t])
    THEN IF or_ignore THEN Ok(db, 1) ELSE Failed(db, "IntegrityError")
    ELSE IF fk_on /\ \E fk \in ForeignKeys : fk.child = t /\ ~HasParent(db, fk, row)
    THEN Failed(db, "IntegrityError")
    ELSE Ok([db EXCEPT ![t] = @ \cup {row}], 1)

\* The row as it is stored, or refused: NOT NULL, CHECK and the unique keys
\* follow the statement's conflict clause (OR IGNORE skips the row); a missing
\* parent is an error under either.
InsertRow(db, fk_on, t, row, or_ignore) ==
    IF ~CheckConstraint(t, row) \/ UniqueViolation(t, row, db[t])
    THEN IF or_ignore THEN Ok(db, 0) ELSE Failed(db, "IntegrityError")
    ELSE IF fk_on /\ \E fk \in ForeignKeys : fk.child = t /\ ~HasParent(db, fk, row)
    THEN Failed(db, "IntegrityError")
    ELSE Ok([db EXCEPT ![t] = @ \cup {row}], 1)

\* INSERT [OR IGNORE] INTO t (<columns of values>) VALUES (...)
Insert(db, fk_on, t, values, or_ignore) ==
    IF t \notin DOMAIN db \/ MissingParent(db, fk_on, t) THEN Failed(db, "OperationalError")
    ELSE IF NotNullViolation(t, values)
    THEN IF or_ignore THEN Ok(db, 0) ELSE Failed(db, "IntegrityError")
    ELSE InsertRow(db, fk_on, t, NewRow(t, values, db[t]), or_ignore)

\* The row old of table t rewritten as new.  No key declares ON UPDATE, so
\* changing a referenced id is refused (NO ACTION) while a row references it.
UpdateRow(db, fk_on, t, set, old, new) ==
    IF ~CheckConstraint(t, new) \/ UniqueViolation(t, new, db[t] \ {old})
    THEN Failed(db, "IntegrityError")
    ELSE IF /\ fk_on
            /\ \/ \E fk \in ForeignKeys :
                    /\ fk.child = t
                    /\ fk.column \in DOMAIN set
                    /\ ~HasParent(db, fk, new)
               \/ /\ new.id # old.id
                  /\ \E fk \in ForeignKeys :
                        /\ fk.parent = t
                        /\ fk.child \in DOMAIN db
                        /\ \E c \in db[fk.child] : c[fk.column] = old.id
    THEN Failed(db, "IntegrityError")
    ELSE Ok([db EXCEPT ![t] = (@ \ {old}) \cup {new}], 1)

Assigned(t, set, old) == [c \in Columns(t) |-> IF c \in DOMAIN set THEN set[c] ELSE old[c]]

WithId(rows, id) == CHOOSE r \in rows : r.id = id

\* UPDATE t SET <set> WHERE id = <id>
Update(db, fk_on, t, id, set) ==
    IF \/ t \notin DOMAIN db
       \/ /\ fk_on
          /\ \E fk \in ForeignKeys :
                fk.child = t /\ fk.column \in DOMAIN set /\ fk.parent \notin DOMAIN db
    THEN Failed(db, "OperationalError")
    ELSE IF id \notin RowIds(db[t]) THEN Ok(db, 0)
    ELSE UpdateRow(db, fk_on, t, set, WithId(db[t], id),
                   Assigned(t, set, WithId(db[t], id)))

\* The rows of table u that a delete of the rows seed of table t removes: seed
\* itself and, through the ON DELETE CASCADE keys, every row that references a
\* removed row.
RECURSIVE Doomed(_, _, _, _)
Doomed(db, t, seed, u) ==
    (IF u = t THEN seed ELSE {}) \cup
    {r \in db[u] :
        \E fk \in ForeignKeys :
            /\ fk.child = u
            /\ fk.on_delete = "CASCADE"
            /\ fk.parent \in DOMAIN db
            /\ r[fk.column] \in RowIds(Doomed(db, t, seed, fk.parent))}

\* The database once the rows seed of table t and their dependents are gone.
Cascade(db, t, seed) == [u \in DOMAIN db |-> db[u] \ Doomed(db, t, seed, u)]

\* A key without CASCADE refuses the delete while a row that stays references
\* a removed row.
Restricted(db, t, seed) ==
    \E fk \in ForeignKeys :
        /\ fk.on_delete # "CASCADE"
        /\ fk.child \in DOMAIN db
        /\ fk.parent \in DOMAIN db
        /\ \E c \in db[fk.child] \ Doomed(db, t, seed, fk.child) :
              c[fk.column] \in RowIds(Doomed(db, t, seed, fk.parent))

DeleteRows(db, fk_on, t, seed) ==
    IF ~fk_on THEN Ok([db EXCEPT ![t] = @ \ seed], Cardinality(seed))
    ELSE IF Restricted(db, t, seed) THEN Failed(db, "IntegrityError")
    ELSE Ok(Cascade(db, t, seed), Cardinality(seed))

\* DELETE FROM t WHERE id = <id>
Delete(db, fk_on, t, id) ==
    IF \/ t \notin DOMAIN db
       \/ \E u \in Reached(db, {t}) : MissingParent(db, fk_on, u)
    THEN Failed(db, "OperationalError")
    ELSE DeleteRows(db, fk_on, t, {r \in db[t] : r.id = id})

\* CREATE TABLE t
CreateTableUnguarded(db, t) ==
    IF t \in DOMAIN db THEN Failed(db, "OperationalError")
    ELSE Ok([u \in DOMAIN db \cup {t} |-> IF u = t THEN {} ELSE db[u]], -1)

\* CREATE TABLE IF NOT EXISTS t
CreateTable(db, t) ==
    IF t \in DOMAIN db THEN Ok(db, -1)
    ELSE Ok([u \in DOMAIN db \cup {t} |-> IF u = t THEN {} ELSE db[u]], -1)

Without(db, t) == [u \in DOMAIN db \ {t} |-> db[u]]

\* DROP TABLE IF EXISTS t: with foreign keys on, the rows are deleted first,
\* and the deletes that cascade from them must be preparable; the references
\* of t itself are not checked.
DropTable(db, fk_on, t) ==
    IF t \notin DOMAIN db THEN Ok(db, -1)
    ELSE IF ~fk_on THEN Ok(Without(db, t), -1)
    ELSE IF \E u \in Reached(db, {t}) \ {t} : MissingParent(db, fk_on, u)
    THEN Failed(db, "OperationalError")
    ELSE IF Restricted(db, t, db[t]) THEN Failed(db, "IntegrityError")
    ELSE Ok(Without(Cascade(db, t, db[t]), t), -1)

\* The rows in the order of ORDER BY id DESC.
RECURSIVE SortByIdDescending(_)
SortByIdDescending(rows) ==
    IF rows = {} THEN <<>>
    ELSE LET first == CHOOSE r \in rows : \A o \in rows : r.id >= o.id
         IN  <<first>> \o SortByIdDescending(rows \ {first})

\* The rows in the order of ORDER BY id.
RECURSIVE SortById(_)
SortById(rows) ==
    IF rows = {} THEN <<>>
    ELSE LET first == CHOOSE r \in rows : \A o \in rows : r.id <= o.id
         IN  <<first>> \o SortById(rows \ {first})

\* SELECT * FROM t WHERE id IN (ids) ORDER BY id: the error and the result rows.
Select(db, t, ids) ==
    IF t \notin DOMAIN db THEN [error |-> "OperationalError", rows |-> <<>>]
    ELSE [error |-> "none", rows |-> SortById({r \in db[t] : r.id \in ids})]

\* The names of the tables in the order of ORDER BY name.
ByName == <<"divisions", "matches", "player_stats", "players", "teams">>

\* SELECT name FROM sqlite_master WHERE type='table' ...: one row per table
\* that exists, or only the table whose name is the bound parameter.
Master(db, params) ==
    [error |-> "none",
     rows |-> IF params = <<>>
              THEN [i \in 1..Len(SelectSeq(ByName, LAMBDA n : n \in DOMAIN db)) |->
                        [name |-> SelectSeq(ByName, LAMBDA n : n \in DOMAIN db)[i]]]
              ELSE IF params[1] \in DOMAIN db THEN <<[name |-> params[1]]>> ELSE <<>>]

\* The rows in some order.
RECURSIVE Listed(_)
Listed(rows) ==
    IF rows = {} THEN <<>>
    ELSE <<CHOOSE r \in rows : TRUE>> \o Listed(rows \ {CHOOSE r \in rows : TRUE})

\* PRAGMA foreign_key_list(t): one row per key that table t declares; no row
\* for a table that does not exist.
ForeignKeyList(db, t) ==
    Listed({[table |-> fk.parent, from |-> fk.column, to |-> "id",
             on_delete |-> fk.on_delete]
            : fk \in {f \in ForeignKeys : f.child = t /\ t \in DOMAIN db}})

\* What the engine makes of the text PRAGMA foreign_key_list(<arg>): a name is
\* the table asked for; text after a name and a closing parenthesis is read as
\* SQL (a comment is skipped, a second statement is refused by the sqlite3
\* module); anything else does not parse.
Pragma(db, arg) ==
    CASE arg \in {"divisions", "teams", "players", "matches", "player_stats", "no_such"} ->
            [error |-> "none", rows |-> ForeignKeyList(db, arg)]
      [] arg = "teams) --" -> [error |-> "none", rows |-> ForeignKeyList(db, "teams")]
      [] arg = "teams); DROP TABLE teams; --" -> [error |-> "ProgrammingError", rows |-> <<>>]
      [] OTHER -> [error |-> "OperationalError", rows |-> <<>>]

\* A statement given as text and bound parameters, as the engine reads it.
Read(db, text, params) ==
    IF text[1] = "PRAGMA foreign_key_list(" THEN Pragma(db, text[2])
    ELSE Master(db, params)

\* The stored names in the order of the BINARY collation of ORDER BY name.
Collation ==
    <<"", "Alice Johnson", "Blue Thunder", "Division 1", "Premier Division",
      "Red Dragons">>

Rank(name) == CHOOSE i \in DOMAIN Collation : Collation[i] = name

\* The rows in the order of ORDER BY name; rows of one name in rowid order.
RECURSIVE SortByName(_)
SortByName(rows) ==
    IF rows = {} THEN <<>>
    ELSE LET first == CHOOSE r \in rows : \A o \in rows :
                          \/ Rank(r.name) < Rank(o.name)
                          \/ Rank(r.name) = Rank(o.name) /\ r.id <= o.id
         IN  <<first>> \o SortByName(rows \ {first})

\* child JOIN parent ON child.column = parent.id
Join(db, child, column, parent) ==
    {p \in db[child] \X db[parent] : p[1][column] = p[2].id}

\* SELECT t.id, t.name, d.name as division_name FROM teams t JOIN divisions d
TeamsJoined(db) ==
    {[id |-> p[1].id, name |-> p[1].name, division_name |-> p[2].name]
     : p \in Join(db, "teams", "division_id", "divisions")}

\* SELECT p.id, p.name, p.position, t.name as team_name FROM players p JOIN teams t
PlayersJoined(db) ==
    {[id |-> p[1].id, name |-> p[1].name, position |-> p[1].position,
      team_name |-> p[2].name]
     : p \in Join(db, "players", "team_id", "teams")}

\* SELECT columns FROM t WHERE id = ?
Projected(db, t, columns, id) ==
    {[c \in columns |-> r[c]] : r \in {o \in db[t] : o.id = id}}

\* The SELECTs of the management widget: the error and the result rows.
View(db, q) ==
    IF \E u \in q.from : u \notin DOMAIN db
    THEN [error |-> "OperationalError", rows |-> <<>>]
    ELSE [error |-> "none",
          rows |-> CASE q.view = "teams" -> SortByName(TeamsJoined(db))
                     [] q.view = "players" -> SortByName(PlayersJoined(db))
                     [] q.view = "divisions" -> SortByName(db["divisions"])
                     [] OTHER -> Listed(Projected(db, q.table, q.columns, q.id))]

Engine(db, fk_on, stmt) ==
    CASE stmt.kind = "insert" -> Insert(db, fk_on, stmt.table, stmt.values, stmt.or_ignore)
      [] stmt.kind = "update" -> Update(db, fk_on, stmt.table, stmt.id, stmt.set)
      [] stmt.kind = "delete" -> Delete(db, fk_on, stmt.table, stmt.id)
      [] stmt.kind = "create" -> CreateTable(db, stmt.table)
      [] stmt.kind = "drop" -> DropTable(db, fk_on, stmt.table)
      [] OTHER -> Failed(db, "OperationalError")

(***************************************************************************)
(* DatabaseManager                                                         *)
(***************************************************************************)
\* A connection on which the PRAGMA is never issued.
NewConnectionWithoutPragma == [foreign_keys |-> FALSE, row_factory |-> "Row"]

\* sqlite3.connect, PRAGMA foreign_keys = ON, row_factory = sqlite3.Row
NewConnection == [foreign_keys |-> TRUE, row_factory |-> "Row"]

\* A connect() that issues the PRAGMA only while the file has no table yet.
connectPragmaOnNewFile(conn, n) ==
    IF conn = {}
    THEN [connection |-> {[NewConnection EXCEPT !.foreign_keys = (store = <<>>)]},
          live |-> n + 1]
    ELSE [connection |-> conn, live |-> n]

\* A connect that opens a connection on every call.
connectAlwaysNew(conn, n) == [connection |-> {NewConnection}, live |-> n + 1]


\* connect(): the handle held, or a new one when none is held; n counts the
\* connections open in the engine.
connect(conn, n) ==
    IF conn = {} THEN [connection |-> {NewConnection}, live |-> n + 1]
    ELSE [connection |-> conn, live |-> n]

\* A close() that closes the handle and keeps holding it.
closeKeepsHandle(conn, n) ==
    [connection |-> conn, live |-> IF conn # {} THEN n - 1 ELSE n, error |-> "none"]

\* A close() without the test for a held handle: None has no close().
closeUnguarded(conn, n) ==
    IF conn # {} THEN [connection |-> {}, live |-> n - 1, error |-> "none"]
    ELSE [connection |-> conn, live |-> n, error |-> "AttributeError"]

\* close(): the handle, when one is held, is closed and dropped.
close(conn, n) ==
    IF conn # {} THEN [connection |-> {}, live |-> n - 1, error |-> "none"]
    ELSE [connection |-> conn, live |-> n, error |-> "none"]

Handle(conn) == CHOOSE h \in conn : TRUE

\* What the connection sees: its open transaction, or the committed file.
Working(db, t) == IF t = {} THEN db ELSE CHOOSE w \in t : TRUE

IsDML(stmt) == stmt.kind \in {"insert", "update", "delete"}

\* What cursor.execute leaves once the engine has answered r.  A statement the
\* engine cannot prepare (malformed, missing table) raises before anything
\* starts; the sqlite3 module opens a transaction before an INSERT, UPDATE or
\* DELETE, and a statement that then fails leaves that transaction open; other
\* statements run in autocommit.
Executed(db, t, stmt, r) ==
    IF r.error = "OperationalError"
    THEN [error |-> r.error, rowcount |-> r.rowcount, store |-> db, txn |-> t,
          executions |-> 1]
    ELSE IF IsDML(stmt) \/ t # {}
    THEN [error |-> r.error, rowcount |-> r.rowcount, store |-> db, txn |-> {r.db},
          executions |-> 1]
    ELSE [error |-> r.error, rowcount |-> r.rowcount, store |-> r.db, txn |-> {},
          executions |-> 1]

\* cursor.execute(query, params)
cursor_execute(db, t, fk_on, stmt) ==
    Executed(db, t, stmt, Engine(Working(db, t), fk_on, stmt))

\* conn.commit(): the transaction x.txn becomes the content of the file.
commit(x) ==
    [error |-> x.error, rowcount |-> x.rowcount,
     store |-> Working(x.store, x.txn), txn |-> {}, executions |-> x.executions]

\* conn.rollback(): the transaction x.txn is dropped.
rollback(x) ==
    [error |-> x.error, rowcount |-> x.rowcount, store |-> x.store, txn |-> {},
     executions |-> x.executions]

\* A try block that neither commits nor rolls back.
FinishedWithoutCommit(x) == x

\* An except branch that commits what the connection holds.
FinishedCommitting(x) == commit(x)

\* The try block of execute_query once cursor.execute has answered x: commit
\* and return the rowcount, or roll back and raise the error again.
Finished(x) == IF x.error = "none" THEN commit(x) ELSE rollback(x)

\* An execute_query that submits a failed statement a second time.
execute_query_retrying(db, t, fk_on, stmt) ==
    IF Finished(cursor_execute(db, t, fk_on, stmt)).error = "none"
    THEN Finished(cursor_execute(db, t, fk_on, stmt))
    ELSE [Finished(cursor_execute(db, {}, fk_on, stmt)) EXCEPT !.executions = 2]

\* execute_query(query, params) on an open connection: what it leaves in the
\* file and in the connection, and what it returns (rowcount) or raises (error);
\* executions counts the cursor.execute calls it made.
execute_query(db, t, fk_on, stmt) == Finished(cursor_execute(db, t, fk_on, stmt))

\* What cursor.execute and the fetch leave: a SELECT starts no transaction and
\* changes nothing; any other statement is executed as in execute_query, has no
\* result rows, and is neither committed nor rolled back.
Selected(db, t, r) ==
    [error |-> r.error, rows |-> r.rows, store |-> db, txn |-> t, executions |-> 1]

NoRows(x) ==
    [error |-> x.error, rows |-> <<>>, store |-> x.store, txn |-> x.txn,
     executions |-> x.executions]

\* A fetch that commits what it has executed.
cursor_fetch_committing(db, t, fk_on, query) ==
    IF query.kind = "select"
    THEN Selected(db, t, Select(Working(db, t), query.table, query.ids))
    ELSE IF query.kind = "text"
    THEN Selected(db, t, Read(Working(db, t), query.text, query.params))
    ELSE IF query.kind = "view"
    THEN Selected(db, t, View(Working(db, t), query))
    ELSE NoRows(Finished(cursor_execute(db, t, fk_on, query)))

cursor_fetch(db, t, fk_on, query) ==
    IF query.kind = "select"
    THEN Selected(db, t, Select(Working(db, t), query.table, query.ids))
    ELSE IF query.kind = "text"
    THEN Selected(db, t, Read(Working(db, t), query.text, query.params))
    ELSE IF query.kind = "view"
    THEN Selected(db, t, View(Working(db, t), query))
    ELSE NoRows(cursor_execute(db, t, fk_on, query))

\* fetch_all(query, params): cursor.fetchall(), or the engine's error re-raised.
fetch_all(db, t, fk_on, query) == cursor_fetch(db, t, fk_on, query)

\* The absent marker fetch_one returns when no row matches.
None == [none |-> TRUE]

\* A fetch that indexes the first of the fetched rows.
FirstRowIndexed(x) ==
    [error |-> IF x.error = "none" /\ x.rows = <<>> THEN "IndexError" ELSE x.error,
     row |-> IF x.error = "none" /\ x.rows # <<>> THEN Head(x.rows) ELSE None,
     store |-> x.store, txn |-> x.txn, executions |-> x.executions]

FirstRow(x) ==
    [error |-> x.error,
     row |-> IF x.error = "none" /\ x.rows # <<>> THEN Head(x.rows) ELSE None,
     store |-> x.store, txn |-> x.txn, executions |-> x.executions]

\* fetch_one(query, params): cursor.fetchone(), or the engine's error re-raised.
fetch_one(db, t, fk_on, query) == FirstRow(cursor_fetch(db, t, fk_on, query))

(***************************************************************************)
(* The statements callers issue.                                           *)
(***************************************************************************)
InsertValues(t) ==
    CASE t = "divisions" -> [id : DivisionIds, name : DivisionNames]
      [] t = "teams" ->
            [id : TeamIds, name : TeamNames, division_id : DivisionIds]
            \cup [name : TeamNames, division_id : DivisionIds]
      [] t = "players" ->
            [id : PlayerIds, name : PlayerNames, position : Positions, team_id : TeamIds]
            \cup [name : PlayerNames, position : Positions, team_id : TeamIds]
      [] t = "matches" ->
            [id : MatchIds, date : Dates, division_id : DivisionIds,
             team1_id : TeamIds, team2_id : TeamIds]
      [] t = "player_stats" -> [id : StatIds, player_id : PlayerIds, match_id : MatchIds]

TableIds(t) ==
    CASE t = "divisions" -> DivisionIds
      [] t = "teams" -> TeamIds
      [] t = "players" -> PlayerIds
      [] t = "matches" -> MatchIds
      [] t = "player_stats" -> StatIds

UpdateSets(t) ==
    CASE t = "divisions" -> [name : DivisionNames] \cup [id : DivisionIds]
      [] t = "teams" -> [name : TeamNames, division_id : DivisionIds] \cup [id : TeamIds]
      [] t = "players" ->
            [name : PlayerNames, position : Positions, team_id : TeamIds]
            \cup [id : PlayerIds]
      [] t = "matches" ->
            [division_id : DivisionIds] \cup [team1_id : TeamIds] \cup [team2_id : TeamIds]
            \cup [id : MatchIds]
      [] t = "player_stats" ->
            [player_id : PlayerIds, match_id : MatchIds] \cup [id : StatIds]

InsertStatements ==
    UNION {[kind : {"insert"}, table : {t}, values : InsertValues(t), or_ignore : BOOLEAN]
           : t \in TableNames}

UpdateStatements ==
    UNION {[kind : {"update"}, table : {t}, id : TableIds(t), set : UpdateSets(t)]
           : t \in TableNames}

DeleteStatements ==
    UNION {[kind : {"delete"}, table : {t}, id : TableIds(t)] : t \in TableNames}

Malformed == [kind |-> "malformed"]

Statements == InsertStatements \cup UpdateStatements \cup DeleteStatements \cup {Malformed}

\* The queries passed to fetch_all and fetch_one: SELECTs, a malformed text,
\* and statements that write (the fetch methods execute whatever they are given).
Queries ==
    UNION {[kind : {"select"}, table : {t}, ids : {TableIds(t)} \cup {{i} : i \in TableIds(t)}]
           : t \in TableNames}
    \cup {Malformed}
    \cup [kind : {"insert"}, table : {"divisions"}, values : InsertValues("divisions"),
          or_ignore : {FALSE}]
    \cup [kind : {"delete"}, table : {"divisions"}, id : DivisionIds]

\* The model keeps the ids within its bounds: an insert that lets the engine
\* choose the id is issued only while the next rowid is within them.
WithinBounds(db, stmt) ==
    (stmt.kind = "insert" /\ "id" \notin DOMAIN stmt.values /\ stmt.table \in DOMAIN db)
        => NextRowid(db[stmt.table]) \in TableIds(stmt.table)

(***************************************************************************)
(* The calls.                                                              *)
(***************************************************************************)
\* No call is in progress and the caller holds no result.
Idle == [op |-> "idle", error |-> "none"]

CanConnect == connection # {} \/ live < MaxOpens

\* No dialog is open.
NoDialog == [kind |-> "none"]

\* The widget before it is constructed.
NoWidget ==
    [open |-> FALSE, teams_data |-> <<>>, players_data |-> <<>>,
     selected_team |-> 0, selected_player |-> 0, dialog |-> NoDialog]

Init ==
    /\ store = <<>>
    /\ txn = {}
    /\ connection = {}
    /\ live = 0
    /\ last = Idle
    /\ scope = "out"
    /\ file = FALSE
    /\ ui = NoWidget

\* What a call leaves in the manager and the file: c is what connect()
\* answered, r what the call did, result what the caller gets.
Called(c, r, result) ==
    /\ connection' = c.connection
    /\ live' = c.live
    /\ store' = r.store
    /\ txn' = r.txn
    /\ last' = result @@ [error |-> r.error,
                          foreign_keys |-> Handle(c.connection).foreign_keys,
                          lazy |-> connection = {}]
    /\ scope' = scope
    /\ file' = TRUE
    /\ ui' = ui

\* Foreign-key checking on the connection the next call runs on.
ForeignKeysOn == Handle(connect(connection, live).connection).foreign_keys

Connect ==
    /\ last = Idle
    /\ CanConnect
    /\ Called(connect(connection, live), [error |-> "none", store |-> store, txn |-> txn],
              [op |-> "connect"])

ExecuteQueryReturns(stmt, r) ==
    Called(connect(connection, live), r,
           [op |-> "execute_query", stmt |-> stmt, rowcount |-> r.rowcount,
            executions |-> r.executions])

ExecuteQuery(stmt) ==
    /\ last = Idle
    /\ CanConnect
    /\ WithinBounds(store, stmt)
    /\ ExecuteQueryReturns(stmt, execute_query(store, txn, ForeignKeysOn, stmt))

FetchAllReturns(query, r) ==
    Called(connect(connection, live), r,
           [op |-> "fetch_all", query |-> query, rows |-> r.rows,
            executions |-> r.executions])

FetchAll(query) ==
    /\ last = Idle
    /\ CanConnect
    /\ FetchAllReturns(query, fetch_all(store, txn, ForeignKeysOn, query))

FetchOneReturns(query, r) ==
    Called(connect(connection, live), r,
           [op |-> "fetch_one", query |-> query, row |-> r.row,
            executions |-> r.executions])

FetchOne(query) ==
    /\ last = Idle
    /\ CanConnect
    /\ FetchOneReturns(query, fetch_one(store, txn, ForeignKeysOn, query))

\* close(): an open transaction is lost with the connection.
Close ==
    /\ last = Idle
    /\ connection' = close(connection, live).connection
    /\ live' = close(connection, live).live
    /\ txn' = {}
    /\ last' = [op |-> "close", error |-> close(connection, live).error,
                held |-> connection # {}]
    /\ UNCHANGED <<store, scope, file, ui>>

\* The calls of stmts in order, each through execute_query, up to the first
\* that raises: x is what the calls so far have left.
RECURSIVE RunAll(_, _, _)
RunAll(x, fk_on, stmts) ==
    IF stmts = <<>> \/ x.error # "none" THEN x
    ELSE RunAll(execute_query(x.store, x.txn, fk_on, Head(stmts)), fk_on, Tail(stmts))

Started(db, t) ==
    [error |-> "none", rowcount |-> -1, store |-> db, txn |-> t, executions |-> 0]

\* The statement of this kind for each of the tables named, in their order.
Each(kind, names) == [i \in DOMAIN names |-> [kind |-> kind, table |-> names[i]]]

\* create_tables(): five CREATE TABLE IF NOT EXISTS, in dependency order.
create_tables(db, t, fk_on) == RunAll(Started(db, t), fk_on, Each("create", Tables))

\* A teardown that starts with the referenced tables.
tablesParentsFirst == <<"divisions", "teams", "players", "matches", "player_stats">>

\* The list drop_tables walks.
tables == <<"player_stats", "matches", "players", "teams", "divisions">>

\* drop_tables(): five DROP TABLE IF EXISTS, in reverse dependency order.
drop_tables(db, t, fk_on) == RunAll(Started(db, t), fk_on, Each("drop", tables))

\* The number of rows of each table that exists.
Sizes(db) == [u \in DOMAIN db |-> Cardinality(db[u])]

CreateTables ==
    /\ last = Idle
    /\ CanConnect
    /\ Called(connect(connection, live), create_tables(store, txn, ForeignKeysOn),
              [op |-> "create_tables", had |-> Sizes(store)])

DropTables ==
    /\ last = Idle
    /\ CanConnect
    /\ Called(connect(connection, live), drop_tables(store, txn, ForeignKeysOn),
              [op |-> "drop_tables", had |-> Sizes(store)])

\* The caller takes what the call returned or raised.
Return ==
    /\ last # Idle
    /\ last' = Idle
    /\ UNCHANGED <<store, txn, connection, live, scope, file, ui>>

Next ==
    \/ Return
    \/ Connect
    \/ Close
    \/ CreateTables
    \/ DropTables
    \/ \E stmt \in Statements : ExecuteQuery(stmt)
    \/ \E query \in Queries : FetchAll(query)
    \/ \E query \in Queries : FetchOne(query)

Spec == Init /\ [][Next]_vars

(***************************************************************************)
(* The sample tournament: create_tables, insert_sample_data, and then       *)
(* deletes and moves of its rows.                                          *)
(***************************************************************************)
sample_divisions ==
    <<<<1, "Premier Division">>, <<2, "Division 1">>, <<3, "Division 2">>>>

sample_teams ==
    <<<<1, "Red Dragons", 1>>, <<2, "Blue Eagles", 1>>,
      <<3, "Green Lions", 2>>, <<4, "Yellow Tigers", 2>>>>

sample_players ==
    <<<<1, "Alice Johnson", "Goal Shooter", 1>>, <<2, "Bob Smith", "Goal Attack", 1>>,
      <<3, "Charlie Brown", "Wing Attack", 2>>, <<4, "Diana Prince", "Center", 2>>,
      <<5, "Eve Wilson", "Goal Keeper", 3>>, <<6, "Frank Miller", "Goal Defense", 3>>>>

sample_matches ==
    <<<<1, "2024-01-15", 1, 1, 2, 45, 42>>, <<2, "2024-01-22", 2, 3, 4, 38, 35>>>>

sample_player_stats ==
    <<<<1, 1, 1, 15, 12, 0, 0, 0, 0, 2>>, <<2, 2, 1, 10, 8, 0, 0, 0, 0, 1>>,
      <<3, 3, 1, 8, 6, 0, 0, 0, 0, 3>>, <<4, 4, 1, 12, 10, 0, 0, 0, 0, 1>>,
      <<5, 5, 2, 14, 11, 0, 0, 0, 0, 2>>, <<6, 6, 2, 9, 7, 0, 0, 0, 0, 1>>>>

\* The column list of each INSERT OR IGNORE of insert_sample_data.
InsertColumns(t) ==
    CASE t = "divisions" -> <<"id", "name">>
      [] t = "teams" -> <<"id", "name", "division_id">>
      [] t = "players" -> <<"id", "name", "position", "team_id">>
      [] t = "matches" -> <<"id", "date", "division_id", "team1_id", "team2_id",
                            "team1_score", "team2_score">>
      [] t = "player_stats" -> <<"id", "player_id", "match_id", "attempts", "goals",
                                 "center_passes", "tips", "rebounds", "interceptions",
                                 "turnovers">>

Position(seq, x) == CHOOSE i \in DOMAIN seq : seq[i] = x

\* The parameters params bound to the columns of the INSERT into t.
Bound(t, params) ==
    [c \in {InsertColumns(t)[i] : i \in DOMAIN InsertColumns(t)} |->
        params[Position(InsertColumns(t), c)]]

\* One plain INSERT per row.
InsertPlain(t, data) ==
    [i \in DOMAIN data |->
        [kind |-> "insert", table |-> t, values |-> Bound(t, data[i]), or_ignore |-> FALSE]]

InsertOrIgnore(t, data) ==
    [i \in DOMAIN data |->
        [kind |-> "insert", table |-> t, values |-> Bound(t, data[i]), or_ignore |-> TRUE]]

\* insert_sample_data(): one INSERT OR IGNORE per row, table by table.
insert_sample_data(db, t, fk_on) ==
    RunAll(Started(db, t), fk_on,
           InsertOrIgnore("divisions", sample_divisions)
           \o InsertOrIgnore("teams", sample_teams)
           \o InsertOrIgnore("players", sample_players)
           \o InsertOrIgnore("matches", sample_matches)
           \o InsertOrIgnore("player_stats", sample_player_stats))

InsertSampleData ==
    /\ last = Idle
    /\ CanConnect
    /\ Called(connect(connection, live), insert_sample_data(store, txn, ForeignKeysOn),
              [op |-> "insert_sample_data", had |-> Sizes(store)])

SampleIds(data) == {data[i][1] : i \in DOMAIN data}

\* The statements issued on the sample tournament: the delete of any of its
\* divisions, teams, players and matches, and a match moved to another division.
SampleStatements ==
    [kind : {"delete"}, table : {"divisions"}, id : SampleIds(sample_divisions)]
    \cup [kind : {"delete"}, table : {"teams"}, id : SampleIds(sample_teams)]
    \cup [kind : {"delete"}, table : {"players"}, id : SampleIds(sample_players)]
    \cup [kind : {"delete"}, table : {"matches"}, id : SampleIds(sample_matches)]
    \cup [kind : {"update"}, table : {"matches"}, id : SampleIds(sample_matches),
          set : [division_id : SampleIds(sample_divisions)]]

\* The queries on the sample tournament: all of its players, or some of them.
SampleQueries ==
    [kind : {"select"}, table : {"players"},
     ids : {SampleIds(sample_players), {2, 5, 6}, {4}}]

NextSample ==
    \/ Return
    \/ Close
    \/ CreateTables
    \/ InsertSampleData
    \/ \E stmt \in SampleStatements : ExecuteQuery(stmt)
    \/ \E query \in SampleQueries : FetchAll(query)
    \/ \E query \in SampleQueries : FetchOne(query)

SpecSample == Init /\ [][NextSample]_vars

(***************************************************************************)
(* The schema taken apart and rebuilt: create_tables, insert_sample_data   *)
(* and drop_tables on stores where single tables have been dropped or      *)
(* created, and rows deleted.                                              *)
(***************************************************************************)
SchemaStatements ==
    [kind : {"create", "drop"}, table : TableNames]
    \cup {[kind |-> "delete", table |-> "divisions", id |-> 1],
          [kind |-> "delete", table |-> "teams", id |-> 3],
          [kind |-> "delete", table |-> "players", id |-> 1],
          [kind |-> "delete", table |-> "matches", id |-> 2],
          [kind |-> "insert", table |-> "divisions",
           values |-> [id |-> 4, name |-> "Premier Division"], or_ignore |-> FALSE]}

\* A delete passed to fetch_all, which leaves it uncommitted.
SchemaQueries == {[kind |-> "delete", table |-> "divisions", id |-> 2]}

NextSchema ==
    \/ Return
    \/ Close
    \/ CreateTables
    \/ DropTables
    \/ InsertSampleData
    \/ \E stmt \in SchemaStatements : ExecuteQuery(stmt)
    \/ \E query \in SchemaQueries : FetchAll(query)

SpecSchema == Init /\ [][NextSchema]_vars

(***************************************************************************)
(* Looking at the schema: table_exists, get_table_names, get_foreign_keys  *)
(* and database_exists, between statements that change it.                 *)
(***************************************************************************)
\* The table names callers ask about.
Names ==
    {"divisions", "teams", "player_stats", "no_such", "teams) --",
     "teams); DROP TABLE teams; --", "x' OR '1'='1"}

\* table_exists(table_name): the query with its bound parameter.
table_exists(table_name) ==
    [kind |-> "text",
     text |-> <<"SELECT name FROM sqlite_master WHERE type='table' AND name = ?">>,
     params |-> <<table_name>>]

\* get_table_names(): the query; it has no parameters.
get_table_names ==
    [kind |-> "text",
     text |-> <<"SELECT name FROM sqlite_master WHERE type='table' AND name NOT LIKE 'sqlite_%' ORDER BY name">>,
     params |-> <<>>]

\* get_foreign_keys(table_name): the f-string with the name written into it.
get_foreign_keys(table_name) ==
    [kind |-> "text",
     text |-> <<"PRAGMA foreign_key_list(", table_name, ")">>,
     params |-> <<>>]

TableExistsReturns(table_name, r) ==
    Called(connect(connection, live), r,
           [op |-> "table_exists", arg |-> table_name, query |-> table_exists(table_name),
            returned |-> r.row # None])

TableExists(table_name) ==
    /\ last = Idle
    /\ CanConnect
    /\ TableExistsReturns(table_name,
                          fetch_one(store, txn, ForeignKeysOn, table_exists(table_name)))

GetTableNamesReturns(r) ==
    Called(connect(connection, live), r,
           [op |-> "get_table_names", query |-> get_table_names,
            returned |-> [i \in DOMAIN r.rows |-> r.rows[i].name]])

GetTableNames ==
    /\ last = Idle
    /\ CanConnect
    /\ GetTableNamesReturns(fetch_all(store, txn, ForeignKeysOn, get_table_names))

GetForeignKeysReturns(table_name, r) ==
    Called(connect(connection, live), r,
           [op |-> "get_foreign_keys", arg |-> table_name,
            query |-> get_foreign_keys(table_name), returned |-> r.rows])

GetForeignKeys(table_name) ==
    /\ last = Idle
    /\ CanConnect
    /\ GetForeignKeysReturns(table_name,
                             fetch_all(store, txn, ForeignKeysOn, get_foreign_keys(table_name)))

\* database_exists(): os.path.exists(self.db_name)
database_exists(f) == f

DatabaseExists ==
    /\ last = Idle
    /\ last' = [op |-> "database_exists", error |-> "none", returned |-> database_exists(file)]
    /\ UNCHANGED <<store, txn, connection, live, scope, file, ui>>

\* The statements and queries issued in between.
InspectStatements ==
    [kind : {"insert"}, table : {"divisions"}, values : InsertValues("divisions"),
     or_ignore : {FALSE}]
    \cup [kind : {"insert"}, table : {"teams"},
          values : [id : {1}, name : TeamNames, division_id : {1}], or_ignore : {FALSE}]
    \cup [kind : {"drop"}, table : {"teams", "player_stats"}]
    \cup {Malformed}

InspectQueries ==
    [kind : {"select"}, table : {"divisions", "teams"}, ids : {{1, 2}, {2}}]
    \cup [kind : {"delete"}, table : {"divisions"}, id : {1}]
    \cup [kind : {"drop"}, table : {"teams"}]
    \cup {Malformed}

NextInspect ==
    \/ Return
    \/ Close
    \/ CreateTables
    \/ DatabaseExists
    \/ GetTableNames
    \/ \E table_name \in Names : TableExists(table_name)
    \/ \E table_name \in Names : GetForeignKeys(table_name)
    \/ \E stmt \in InspectStatements : ExecuteQuery(stmt)
    \/ \E query \in InspectQueries : FetchAll(query)
    \/ \E query \in InspectQueries : FetchOne(query)

SpecInspect == Init /\ [][NextInspect]_vars

(***************************************************************************)
(* Scoped use: `with DatabaseManager(name) as db:` around calls.             *)
(***************************************************************************)
\* __enter__(): returns the manager itself.
__enter__(conn, n) == [connection |-> conn, live |-> n]

\* An __exit__ that returns a true value: the error of the body is swallowed.
exitSuppresses(conn, n, exc) ==
    [connection |-> close(conn, n).connection, live |-> close(conn, n).live,
     error |-> close(conn, n).error]

\* __exit__(exc_type, exc_val, exc_tb): close(), and None is returned, so the
\* error exc that ended the body ("none" on a normal exit) is raised again.
__exit__(conn, n, exc) ==
    [connection |-> close(conn, n).connection, live |-> close(conn, n).live,
     error |-> IF close(conn, n).error # "none" THEN close(conn, n).error ELSE exc]

Enter ==
    /\ scope = "out"
    /\ last = Idle
    /\ connection' = __enter__(connection, live).connection
    /\ live' = __enter__(connection, live).live
    /\ last' = [op |-> "enter", error |-> "none"]
    /\ scope' = "in"
    /\ UNCHANGED <<store, txn, file, ui>>

\* The body raises an error of its own.
BodyRaises ==
    /\ scope = "in"
    /\ last = Idle
    /\ last' = [op |-> "body", error |-> "ValueError"]
    /\ UNCHANGED <<store, txn, connection, live, scope, file, ui>>

\* The block is left: at its end, or by the error that a call or the body
\* has raised and the body has not caught.
Exit ==
    /\ scope = "in"
    /\ last = Idle \/ last.error # "none"
    /\ connection' = __exit__(connection, live, last.error).connection
    /\ live' = __exit__(connection, live, last.error).live
    /\ txn' = {}
    /\ last' = [op |-> "exit", error |-> __exit__(connection, live, last.error).error]
    /\ scope' = "out"
    /\ UNCHANGED <<store, file, ui>>

\* The calls made in and around the block.
ScopeStatements ==
    [kind : {"insert"}, table : {"divisions"}, values : InsertValues("divisions"),
     or_ignore : {FALSE}]
    \cup {Malformed}

ScopeQueries ==
    [kind : {"select"}, table : {"divisions"}, ids : {DivisionIds}]
    \cup [kind : {"delete"}, table : {"divisions"}, id : DivisionIds]

NextScope ==
    \/ Return
    \/ Enter
    \/ BodyRaises
    \/ Exit
    \/ Close
    \/ CreateTables
    \/ \E stmt \in ScopeStatements : ExecuteQuery(stmt)
    \/ \E query \in ScopeQueries : FetchOne(query)

SpecScope == Init /\ [][NextScope]_vars

(***************************************************************************)
(* The management widget: two table models that hold the rows they last    *)
(* fetched, the add/edit dialogs and the delete confirmations.  A dialog   *)
(* is modal: while it is open the widget takes no other input.             *)
(***************************************************************************)
UITeamIds == {1, 2}
UIPlayerIds == {1, 2}

\* What the user types into the name field, and answers to a confirmation.
TeamNameInputs == {"Red Dragons", " Blue Thunder ", "", "  "}
PlayerNameInputs == {"Alice Johnson", " "}
Replies == {"Yes", "No"}

\* str.strip() of the texts typed.
strip(text) ==
    CASE text = " Blue Thunder " -> "Blue Thunder"
      [] text \in {" ", "  "} -> ""
      [] OTHER -> text

TeamsQuery == [kind |-> "view", view |-> "teams", from |-> {"teams", "divisions"}]

PlayersQuery == [kind |-> "view", view |-> "players", from |-> {"players", "teams"}]

DivisionsQuery == [kind |-> "view", view |-> "divisions", from |-> {"divisions"}]

RowQuery(t, columns, id) ==
    [kind |-> "view", view |-> "row", from |-> {t}, table |-> t, columns |-> columns,
     id |-> id]

\* TeamsTableModel.refresh(): the model is reset around _load_data(), and the
\* view drops its selection when its model is reset.
TeamsLoaded(u, r) ==
    IF r.error = "none" THEN [u EXCEPT !.teams_data = r.rows, !.selected_team = 0] ELSE u

refresh_teams(u, db, t, fk_on) == TeamsLoaded(u, fetch_all(db, t, fk_on, TeamsQuery))

\* PlayersTableModel.refresh()
PlayersLoaded(u, r) ==
    IF r.error = "none" THEN [u EXCEPT !.players_data = r.rows, !.selected_player = 0]
    ELSE u

refresh_players(u, db, t, fk_on) == PlayersLoaded(u, fetch_all(db, t, fk_on, PlayersQuery))

refresh_data(u, db, t, fk_on) == refresh_players(refresh_teams(u, db, t, fk_on), db, t, fk_on)

\* The error that stops the construction of the widget, if any.
LoadError(db, t, fk_on) ==
    IF fetch_all(db, t, fk_on, TeamsQuery).error # "none"
    THEN fetch_all(db, t, fk_on, TeamsQuery).error
    ELSE fetch_all(db, t, fk_on, PlayersQuery).error

\* TeamPlayerManagementWidget(db_manager): both models load, then refresh_data().
OpenWidget ==
    /\ last = Idle
    /\ CanConnect
    /\ ~ui.open
    /\ connection' = connect(connection, live).connection
    /\ live' = connect(connection, live).live
    /\ ui' = IF LoadError(store, txn, ForeignKeysOn) = "none"
             THEN refresh_data([ui EXCEPT !.open = TRUE], store, txn, ForeignKeysOn)
             ELSE ui
    /\ last' = [op |-> "open", error |-> LoadError(store, txn, ForeignKeysOn)]
    /\ file' = TRUE
    /\ UNCHANGED <<store, txn, scope>>

\* What a handler leaves: h is the widget, the file and the connection after
\* it, and the statements it passed to execute_query.
Handled(op, h) ==
    /\ connection' = connect(connection, live).connection
    /\ live' = connect(connection, live).live
    /\ store' = h.store
    /\ txn' = h.txn
    /\ ui' = h.ui
    /\ last' = op @@ [error |-> h.error, issued |-> h.issued]
    /\ file' = TRUE
    /\ scope' = scope

\* A handler that has passed nothing to execute_query.
Shown(u, db, t) == [ui |-> u, store |-> db, txn |-> t, issued |-> <<>>, error |-> "none"]

\* 0 stands for None: no row is selected.
get_selected_team_id(u) ==
    IF u.selected_team = 0 THEN 0 ELSE u.teams_data[u.selected_team].id

get_selected_player_id(u) ==
    IF u.selected_player = 0 THEN 0 ELSE u.players_data[u.selected_player].id

\* The user clicks a row of the teams table.
SelectTeam(row) ==
    /\ last = Idle
    /\ ui.open
    /\ ui.dialog = NoDialog
    /\ row \in DOMAIN ui.teams_data
    /\ ui' = [ui EXCEPT !.selected_team = row]
    /\ UNCHANGED <<store, txn, connection, live, last, scope, file>>

SelectPlayer(row) ==
    /\ last = Idle
    /\ ui.open
    /\ ui.dialog = NoDialog
    /\ row \in DOMAIN ui.players_data
    /\ ui' = [ui EXCEPT !.selected_player = row]
    /\ UNCHANGED <<store, txn, connection, live, last, scope, file>>

\* The data of the items of a combo box filled from rows, and the item that
\* is current after filling: the first, or none (0) in an empty box.
ItemData(rows) == [i \in DOMAIN rows |-> rows[i].id]

First(items) == IF items = <<>> THEN 0 ELSE 1

IndexOf(items, id) ==
    IF \E i \in DOMAIN items : items[i] = id
    THEN CHOOSE i \in DOMAIN items : items[i] = id
    ELSE First(items)

currentData(items, current) == IF current = 0 THEN 0 ELSE items[current]

\* The items the user can make current.
Choices(items) == IF items = <<>> THEN {0} ELSE DOMAIN items

\* AddTeamDialog(db_manager, team_id): load_divisions(), then load_team_data()
\* when a team is edited (team is what its fetch_one returned).
TeamDialogLoaded(team_id, items, team) ==
    [kind |-> "team", id |-> team_id, items |-> items,
     name |-> IF team_id # 0 /\ team # None THEN team.name ELSE "",
     current |-> IF team_id # 0 /\ team # None THEN IndexOf(items, team.division_id)
                 ELSE First(items)]

AddTeamDialog(db, t, fk_on, team_id) ==
    TeamDialogLoaded(team_id, ItemData(fetch_all(db, t, fk_on, DivisionsQuery).rows),
                     fetch_one(db, t, fk_on,
                               RowQuery("teams", {"name", "division_id"}, team_id)).row)

\* AddPlayerDialog(db_manager, player_id): load_teams(), then load_player_data().
PlayerDialogLoaded(player_id, items, player) ==
    [kind |-> "player", id |-> player_id, items |-> items,
     name |-> IF player_id # 0 /\ player # None THEN player.name ELSE "",
     current |-> IF player_id # 0 /\ player # None THEN IndexOf(items, player.team_id)
                 ELSE First(items)]

AddPlayerDialog(db, t, fk_on, player_id) ==
    PlayerDialogLoaded(player_id, ItemData(fetch_all(db, t, fk_on, TeamsQuery).rows),
                       fetch_one(db, t, fk_on,
                                 RowQuery("players", {"name", "position", "team_id"},
                                          player_id)).row)

\* The statement a dialog issues: an UPDATE of the row it was opened for, or
\* an INSERT that leaves the id to the engine.
Written(d, t, values) ==
    IF d.id # 0
    THEN [kind |-> "update", table |-> t, id |-> d.id, set |-> values]
    ELSE [kind |-> "insert", table |-> t, values |-> values, or_ignore |-> FALSE]

\* A warning is shown and the dialog stays open.
Invalid(db, t) ==
    [accepted |-> FALSE, store |-> db, txn |-> t, issued |-> <<>>, error |-> "none"]

\* accept() after execute_query has returned; after it has raised, the error
\* is shown and the dialog stays open.
Saved(stmt, r) ==
    [accepted |-> r.error = "none", store |-> r.store, txn |-> r.txn,
     issued |-> <<stmt>>, error |-> r.error]

\* A save that writes whatever the fields hold.
saveUnvalidated(db, t, fk_on, name, data, stmt) ==
    Saved(stmt, execute_query(db, t, fk_on, stmt))

\* save_team() and save_player() after the fields are read.
save(db, t, fk_on, name, data, stmt) ==
    IF name = "" THEN Invalid(db, t)
    ELSE IF data = 0 THEN Invalid(db, t)
    ELSE Saved(stmt, execute_query(db, t, fk_on, stmt))

save_team(d, db, t, fk_on, text, current) ==
    save(db, t, fk_on, strip(text), currentData(d.items, current),
         Written(d, "teams", [name |-> strip(text),
                              division_id |-> currentData(d.items, current)]))

save_player(d, db, t, fk_on, text, position, current) ==
    save(db, t, fk_on, strip(text), currentData(d.items, current),
         Written(d, "players", [name |-> strip(text), position |-> position,
                                team_id |-> currentData(d.items, current)]))

\* add_team()
add_team(u, db, t, fk_on) ==
    Shown([u EXCEPT !.dialog = AddTeamDialog(db, t, fk_on, 0)], db, t)

\* edit_team()
edit_team(u, db, t, fk_on) ==
    IF get_selected_team_id(u) = 0 THEN Shown(u, db, t)
    ELSE Shown([u EXCEPT !.dialog = AddTeamDialog(db, t, fk_on, get_selected_team_id(u))],
               db, t)

add_player(u, db, t, fk_on) ==
    Shown([u EXCEPT !.dialog = AddPlayerDialog(db, t, fk_on, 0)], db, t)

edit_player(u, db, t, fk_on) ==
    IF get_selected_player_id(u) = 0 THEN Shown(u, db, t)
    ELSE Shown([u EXCEPT !.dialog =
                    AddPlayerDialog(db, t, fk_on, get_selected_player_id(u))], db, t)

\* add_team() and edit_team() once dialog.exec() has returned h: the teams
\* model is refreshed when the dialog was accepted.
TeamDialogDone(u, fk_on, h) ==
    [ui |-> IF h.accepted
            THEN refresh_teams([u EXCEPT !.dialog = NoDialog], h.store, h.txn, fk_on)
            ELSE u,
     store |-> h.store, txn |-> h.txn, issued |-> h.issued, error |-> h.error]

\* add_player() and edit_player() once dialog.exec() has returned h.
PlayerDialogDone(u, fk_on, h) ==
    [ui |-> IF h.accepted
            THEN refresh_players([u EXCEPT !.dialog = NoDialog], h.store, h.txn, fk_on)
            ELSE u,
     store |-> h.store, txn |-> h.txn, issued |-> h.issued, error |-> h.error]

DeleteOf(t, id) == [kind |-> "delete", table |-> t, id |-> id]

\* delete_team() after the confirmation: r is what execute_query did.
TeamDeleted(u, fk_on, stmt, r) ==
    [ui |-> IF r.error = "none"
            THEN refresh_players(refresh_teams(u, r.store, r.txn, fk_on),
                                 r.store, r.txn, fk_on)
            ELSE u,
     store |-> r.store, txn |-> r.txn, issued |-> <<stmt>>, error |-> r.error]

\* A delete_team() that does not wait for the answer.
delete_team_unconfirmed(u, db, t, fk_on, reply) ==
    IF get_selected_team_id(u) = 0 THEN Shown(u, db, t)
    ELSE TeamDeleted(u, fk_on, DeleteOf("teams", get_selected_team_id(u)),
                     execute_query(db, t, fk_on,
                                   DeleteOf("teams", get_selected_team_id(u))))

\* delete_team()
delete_team(u, db, t, fk_on, reply) ==
    IF get_selected_team_id(u) = 0 THEN Shown(u, db, t)
    ELSE IF fetch_one(db, t, fk_on,
                      RowQuery("teams", {"name"}, get_selected_team_id(u))).row = None
    THEN Shown(u, db, t)
    ELSE IF reply # "Yes" THEN Shown(u, db, t)
    ELSE TeamDeleted(u, fk_on, DeleteOf("teams", get_selected_team_id(u)),
                     execute_query(db, t, fk_on,
                                   DeleteOf("teams", get_selected_team_id(u))))

\* delete_player() after the confirmation.
PlayerDeleted(u, fk_on, stmt, r) ==
    [ui |-> IF r.error = "none" THEN refresh_players(u, r.store, r.txn, fk_on) ELSE u,
     store |-> r.store, txn |-> r.txn, issued |-> <<stmt>>, error |-> r.error]

\* delete_player()
delete_player(u, db, t, fk_on, reply) ==
    IF get_selected_player_id(u) = 0 THEN Shown(u, db, t)
    ELSE IF fetch_one(db, t, fk_on,
                      RowQuery("players", {"name"}, get_selected_player_id(u))).row = None
    THEN Shown(u, db, t)
    ELSE IF reply # "Yes" THEN Shown(u, db, t)
    ELSE PlayerDeleted(u, fk_on, DeleteOf("players", get_selected_player_id(u)),
                       execute_query(db, t, fk_on,
                                     DeleteOf("players", get_selected_player_id(u))))

\* The widget takes a click on one of its buttons.
Ready == last = Idle /\ ui.open /\ ui.dialog = NoDialog

AddTeam ==
    /\ Ready
    /\ Handled([op |-> "add_team"], add_team(ui, store, txn, ForeignKeysOn))

EditTeam ==
    /\ Ready
    /\ Handled([op |-> "edit_team", id |-> get_selected_team_id(ui)],
               edit_team(ui, store, txn, ForeignKeysOn))

AddPlayer ==
    /\ Ready
    /\ Handled([op |-> "add_player"], add_player(ui, store, txn, ForeignKeysOn))

EditPlayer ==
    /\ Ready
    /\ Handled([op |-> "edit_player", id |-> get_selected_player_id(ui)],
               edit_player(ui, store, txn, ForeignKeysOn))

\* Save is clicked in the team dialog with this text and this division.
SaveTeamReturns(text, h) ==
    Handled([op |-> "save_team", id |-> ui.dialog.id, text |-> text,
             accepted |-> h.accepted],
            TeamDialogDone(ui, ForeignKeysOn, h))

SaveTeam(text, current) ==
    /\ last = Idle
    /\ ui.dialog.kind = "team"
    /\ current \in Choices(ui.dialog.items)
    /\ ui.dialog.id = 0 => NextRowid(store["teams"]) \in UITeamIds
    /\ SaveTeamReturns(text, save_team(ui.dialog, store, txn, ForeignKeysOn, text, current))

SavePlayerReturns(text, h) ==
    Handled([op |-> "save_player", id |-> ui.dialog.id, text |-> text,
             accepted |-> h.accepted],
            PlayerDialogDone(ui, ForeignKeysOn, h))

SavePlayer(text, position, current) ==
    /\ last = Idle
    /\ ui.dialog.kind = "player"
    /\ current \in Choices(ui.dialog.items)
    /\ ui.dialog.id = 0 => NextRowid(store["players"]) \in UIPlayerIds
    /\ SavePlayerReturns(text, save_player(ui.dialog, store, txn, ForeignKeysOn,
                                           text, position, current))

\* Cancel is clicked: reject().
Cancel ==
    /\ last = Idle
    /\ ui.dialog # NoDialog
    /\ Handled([op |-> "cancel", id |-> ui.dialog.id, accepted |-> FALSE],
               Shown([ui EXCEPT !.dialog = NoDialog], store, txn))

DeleteTeam(reply) ==
    /\ Ready
    /\ Handled([op |-> "delete_team", id |-> get_selected_team_id(ui), reply |-> reply,
                had |-> Sizes(store)],
               delete_team(ui, store, txn, ForeignKeysOn, reply))

DeletePlayer(reply) ==
    /\ Ready
    /\ Handled([op |-> "delete_player", id |-> get_selected_player_id(ui),
                reply |-> reply],
               delete_player(ui, store, txn, ForeignKeysOn, reply))

\* The Refresh buttons.
RefreshTeams ==
    /\ Ready
    /\ Handled([op |-> "refresh_teams"],
               Shown(refresh_teams(ui, store, txn, ForeignKeysOn), store, txn))

RefreshPlayers ==
    /\ Ready
    /\ Handled([op |-> "refresh_players"],
               Shown(refresh_players(ui, store, txn, ForeignKeysOn), store, txn))

\* The divisions are stored before the window is shown; afterwards every
\* statement comes from the widget.
UIStatements ==
    [kind : {"insert"}, table : {"divisions"}, values : InsertValues("divisions"),
     or_ignore : {FALSE}]

NextUI ==
    \/ Return
    \/ ~ui.open /\ CreateTables
    \/ \E stmt \in UIStatements : ~ui.open /\ ExecuteQuery(stmt)
    \/ OpenWidget
    \/ \E row \in UITeamIds : SelectTeam(row)
    \/ \E row \in UIPlayerIds : SelectPlayer(row)
    \/ AddTeam
    \/ EditTeam
    \/ AddPlayer
    \/ EditPlayer
    \/ \E text \in TeamNameInputs, current \in {0} \cup UITeamIds : SaveTeam(text, current)
    \/ \E text \in PlayerNameInputs, position \in Positions, current \in {0} \cup UITeamIds :
          SavePlayer(text, position, current)
    \/ Cancel
    \/ \E reply \in Replies : DeleteTeam(reply)
    \/ \E reply \in Replies : DeletePlayer(reply)
    \/ RefreshTeams
    \/ RefreshPlayers

SpecUI == Init /\ [][NextUI]_vars

(***************************************************************************)
(* Properties.                                                             *)
(***************************************************************************)
\* What the engine answers to the statement of the call that a step makes, on
\* the rows the connection sees before the call.
Answer == Engine(Working(store, txn), last'.foreign_keys, last'.stmt)

\* C1: execute_query is atomic per call.  The call fails exactly when the
\* engine rejects the statement, and then it raises the engine's own error,
\* leaves no transaction open and leaves the committed rows of every table as
\* they were before the call; when the engine accepts the statement, the
\* statement's effect is the committed content of the file when the call
\* returns and no transaction is left open.
C1_ExecuteQueryAtomic ==
    [][last'.op = "execute_query" =>
          /\ last'.error = Answer.error
          /\ txn' = {}
          /\ Answer.error = "none" => store' = Answer.db
          /\ Answer.error # "none" => store' = store]_vars

\* A call has failed on a constraint after earlier calls had committed rows.
C1_Witness ==
    /\ last.op = "execute_query"
    /\ last.error = "IntegrityError"
    /\ txn = {}
    /\ "divisions" \in DOMAIN store
    /\ store["divisions"] # {}

\* The row of table parent that the column of row refers to is stored.
Refers(row, column, parent) == \E p \in store[parent] : p.id = row[column]

\* C2: referential integrity holds in every reachable state of the created
\* schema: every team references a stored division, every player a stored
\* team, every match a stored division and two stored teams, and every
\* player_stats row a stored player and a stored match.
C2_ReferentialIntegrity ==
    store # <<>> =>
        /\ \A r \in store["teams"] : Refers(r, "division_id", "divisions")
        /\ \A r \in store["players"] : Refers(r, "team_id", "teams")
        /\ \A r \in store["matches"] :
              /\ Refers(r, "division_id", "divisions")
              /\ Refers(r, "team1_id", "teams")
              /\ Refers(r, "team2_id", "teams")
        /\ \A r \in store["player_stats"] :
              /\ Refers(r, "player_id", "players")
              /\ Refers(r, "match_id", "matches")

\* A delete has removed a division while rows of all five tables stay stored.
C2_Witness ==
    /\ last.op = "execute_query"
    /\ last.stmt.kind = "delete"
    /\ last.stmt.table = "divisions"
    /\ last.rowcount = 1
    /\ \A t \in TableNames : store[t] # {}

\* C10: foreign-key checking is on for the connection the manager holds and
\* for the connection every call ran on, also when the call had to open the
\* connection itself.
C10_ForeignKeysAlwaysOn ==
    /\ connection # {} => Handle(connection).foreign_keys
    /\ last.op \notin {"idle", "close"} => last.foreign_keys

\* On a connection that the call reopened by itself after a close, an insert
\* of a team without its division is refused.
C10_Witness ==
    /\ last.op = "execute_query"
    /\ last.lazy
    /\ last.stmt.kind = "insert"
    /\ last.stmt.table = "teams"
    /\ last.error = "IntegrityError"
    /\ store["divisions"] = {}

\* The call that a step makes is execute_query with a statement of this kind
\* on table t, and the tables exist.
Executes(kind, t) ==
    /\ last'.op = "execute_query"
    /\ last'.stmt.kind = kind
    /\ last'.stmt.table = t
    /\ store # <<>>

\* The rows the connection sees before the call.
Before == Working(store, txn)

TeamsIn(db, d) == {r \in db["teams"] : r.division_id = d}

PlayersIn(db, teams) == {r \in db["players"] : r.team_id \in RowIds(teams)}

\* The matches of division d and the matches that one of the teams plays.
MatchesOf(db, d, teams) ==
    {r \in db["matches"] :
        r.division_id = d \/ r.team1_id \in RowIds(teams) \/ r.team2_id \in RowIds(teams)}

StatsOf(db, players, matches) ==
    {r \in db["player_stats"] :
        r.player_id \in RowIds(players) \/ r.match_id \in RowIds(matches)}

\* The database without its division d and the rows that depend on it: the
\* teams of d, their players, the matches of d or of those teams, and the
\* player_stats of those players and matches.
WithoutDivision(db, d) ==
    [divisions |-> {r \in db["divisions"] : r.id # d},
     teams |-> db["teams"] \ TeamsIn(db, d),
     players |-> db["players"] \ PlayersIn(db, TeamsIn(db, d)),
     matches |-> db["matches"] \ MatchesOf(db, d, TeamsIn(db, d)),
     player_stats |->
        db["player_stats"] \ StatsOf(db, PlayersIn(db, TeamsIn(db, d)),
                                     MatchesOf(db, d, TeamsIn(db, d)))]

\* C3: the delete of a division succeeds and removes exactly the division, all
\* its teams, all players of those teams, all its matches (and the matches its
\* teams play), and all player_stats of those players and matches; every other
\* row of every table stays as it was.
C3_DeleteDivisionCascades ==
    [][Executes("delete", "divisions") =>
          /\ last'.error = "none"
          /\ store' = WithoutDivision(Before, last'.stmt.id)]_vars

\* Premier Division has been deleted with its two teams, four players, match
\* and four player_stats; the other divisions and all that is theirs remain.
C3_Witness ==
    /\ last.op = "execute_query"
    /\ last.stmt = [kind |-> "delete", table |-> "divisions", id |-> 1]
    /\ last.rowcount = 1
    /\ RowIds(store["divisions"]) = {2, 3}
    /\ RowIds(store["teams"]) = {3, 4}
    /\ RowIds(store["players"]) = {5, 6}
    /\ RowIds(store["matches"]) = {2}
    /\ RowIds(store["player_stats"]) = {5, 6}

TeamWithId(db, id) == {r \in db["teams"] : r.id = id}

\* The database without team id and the rows that depend on it.  No division
\* has id 0, so MatchesOf selects by team only.
WithoutTeam(db, id) ==
    [divisions |-> db["divisions"],
     teams |-> db["teams"] \ TeamWithId(db, id),
     players |-> db["players"] \ PlayersIn(db, TeamWithId(db, id)),
     matches |-> db["matches"] \ MatchesOf(db, 0, TeamWithId(db, id)),
     player_stats |->
        db["player_stats"] \ StatsOf(db, PlayersIn(db, TeamWithId(db, id)),
                                     MatchesOf(db, 0, TeamWithId(db, id)))]

\* C4: the delete of a team succeeds and removes exactly the team, its
\* players, the matches in which it is team1 or team2 whatever their division,
\* and the player_stats of a removed player or match; every other row of every
\* table stays as it was.
C4_DeleteTeamCascades ==
    [][Executes("delete", "teams") =>
          /\ last'.error = "none"
          /\ store' = WithoutTeam(Before, last'.stmt.id)]_vars

\* Yellow Tigers has been deleted: its match and that match's player_stats
\* are gone; its opponent Green Lions, the opponent's players, the division of
\* both and every row of the other match remain.
C4_Witness ==
    /\ last.op = "execute_query"
    /\ last.stmt = [kind |-> "delete", table |-> "teams", id |-> 4]
    /\ last.rowcount = 1
    /\ RowIds(store["divisions"]) = {1, 2, 3}
    /\ RowIds(store["teams"]) = {1, 2, 3}
    /\ RowIds(store["players"]) = {1, 2, 3, 4, 5, 6}
    /\ RowIds(store["matches"]) = {1}
    /\ RowIds(store["player_stats"]) = {1, 2, 3, 4}

\* C5: the delete of a player (of a match) succeeds and removes the row and
\* every player_stats row with that player_id (match_id), and nothing else:
\* divisions, teams, the other players and matches, and the player_stats of
\* other players (matches) stay as they were.
C5_DeletePlayerOrMatchCascades ==
    [][/\ Executes("delete", "players") =>
            /\ last'.error = "none"
            /\ store' = [Before EXCEPT
                  !["players"] = {r \in @ : r.id # last'.stmt.id},
                  !["player_stats"] = {r \in @ : r.player_id # last'.stmt.id}]
       /\ Executes("delete", "matches") =>
            /\ last'.error = "none"
            /\ store' = [Before EXCEPT
                  !["matches"] = {r \in @ : r.id # last'.stmt.id},
                  !["player_stats"] = {r \in @ : r.match_id # last'.stmt.id}]]_vars

\* The first match has been deleted with its four player_stats; the second
\* match, its two player_stats and all six players remain.
C5_Witness ==
    /\ last.op = "execute_query"
    /\ last.stmt = [kind |-> "delete", table |-> "matches", id |-> 1]
    /\ last.rowcount = 1
    /\ RowIds(store["players"]) = {1, 2, 3, 4, 5, 6}
    /\ RowIds(store["matches"]) = {2}
    /\ RowIds(store["player_stats"]) = {5, 6}

\* The five relations: the columns of table t that refer to a parent table.
References(t) ==
    CASE t = "teams" -> {<<"division_id", "divisions">>}
      [] t = "players" -> {<<"team_id", "teams">>}
      [] t = "matches" -> {<<"division_id", "divisions">>, <<"team1_id", "teams">>,
                           <<"team2_id", "teams">>}
      [] t = "player_stats" -> {<<"player_id", "players">>, <<"match_id", "matches">>}
      [] OTHER -> {}

ParentsStored(db, t, row) ==
    \A ref \in References(t) : \E p \in db[ref[2]] : p.id = row[ref[1]]

\* The row breaks no rule of table t other than its references.
OtherwiseValid(db, t, row) ==
    /\ \A o \in db[t] : o.id # row.id
    /\ t = "divisions" => \A o \in db[t] : o.name # row.name
    /\ t = "matches" => row.team1_id # row.team2_id
    /\ t = "player_stats" =>
          \A o \in db[t] : o.player_id # row.player_id \/ o.match_id # row.match_id

\* The row that the INSERT of the call asks to store.
Asked == NewRow(last'.stmt.table, last'.stmt.values, Before[last'.stmt.table])

InsertsChild ==
    /\ last'.op = "execute_query"
    /\ last'.stmt.kind = "insert"
    /\ References(last'.stmt.table) # {}
    /\ store # <<>>

\* C6: on the created schema, for each of the relations team->division,
\* player->team, match->division, match->team1, match->team2,
\* player_stats->player and player_stats->match: the insert of an otherwise
\* valid child row succeeds and stores the row when every parent it refers to
\* is stored; when a parent is missing the insert fails with a constraint
\* error and the committed rows stay as they were (an INSERT OR IGNORE of a row
\* that also collides with a stored row is skipped without an error); in no
\* case is a row with a missing parent stored.
C6_InsertNeedsParent ==
    [][InsertsChild =>
          /\ (ParentsStored(Before, last'.stmt.table, Asked)
                /\ OtherwiseValid(Before, last'.stmt.table, Asked))
             => /\ last'.error = "none"
                /\ last'.rowcount = 1
                /\ store' = [Before EXCEPT ![last'.stmt.table] = @ \cup {Asked}]
          /\ (~ParentsStored(Before, last'.stmt.table, Asked)
                /\ (OtherwiseValid(Before, last'.stmt.table, Asked)
                      \/ ~last'.stmt.or_ignore))
             => /\ last'.error = "IntegrityError"
                /\ store' = store
          /\ ~ParentsStored(Before, last'.stmt.table, Asked)
             => store' \in {store, Before}]_vars

\* A match between two different teams has been refused: its division and its
\* first team are stored, its second team is not.
C6_Witness ==
    /\ last.op = "execute_query"
    /\ last.stmt.kind = "insert"
    /\ last.stmt.table = "matches"
    /\ last.error = "IntegrityError"
    /\ last.stmt.values.team1_id # last.stmt.values.team2_id
    /\ last.stmt.values.division_id \in RowIds(store["divisions"])
    /\ last.stmt.values.team1_id \in RowIds(store["teams"])
    /\ last.stmt.values.team2_id \notin RowIds(store["teams"])
    /\ store["matches"] = {}

\* C7: no two stored divisions have the same name, in every reachable state:
\* an INSERT of a division whose name a stored division has, and an UPDATE that
\* gives a division the name of another, fail with a constraint error and
\* leave the committed rows as they were (an INSERT OR IGNORE of such a row is
\* skipped and leaves the divisions as they were).
C7_DivisionNamesUnique ==
    /\ [](store # <<>> =>
            \A a, b \in store["divisions"] : a.name = b.name => a = b)
    /\ [][/\ (Executes("insert", "divisions")
                /\ \E o \in Before["divisions"] : o.name = last'.stmt.values.name)
             => IF last'.stmt.or_ignore
                THEN /\ last'.error = "none"
                     /\ last'.rowcount = 0
                     /\ store'["divisions"] = Before["divisions"]
                ELSE /\ last'.error = "IntegrityError"
                     /\ store' = store
          /\ (Executes("update", "divisions")
                /\ "name" \in DOMAIN last'.stmt.set
                /\ last'.stmt.id \in RowIds(Before["divisions"])
                /\ \E o \in Before["divisions"] :
                      o.id # last'.stmt.id /\ o.name = last'.stmt.set.name)
             => /\ last'.error = "IntegrityError"
                /\ store' = store]_vars

\* The rename of one of two stored divisions to the name of the other has been
\* refused.
C7_Witness ==
    /\ last.op = "execute_query"
    /\ last.stmt.kind = "update"
    /\ last.stmt.table = "divisions"
    /\ "name" \in DOMAIN last.stmt.set
    /\ last.error = "IntegrityError"
    /\ \E a, b \in store["divisions"] :
          a.id = last.stmt.id /\ b.id # a.id /\ b.name = last.stmt.set.name

\* C8: no stored match has team1_id equal to team2_id, in every reachable
\* state: an INSERT of such a match, and an UPDATE that makes the two equal,
\* fail with a constraint error and leave the committed rows as they were (an
\* INSERT OR IGNORE of such a match is skipped and stores nothing).
C8_TeamsOfMatchDiffer ==
    /\ [](store # <<>> => \A r \in store["matches"] : r.team1_id # r.team2_id)
    /\ [][/\ (Executes("insert", "matches")
                /\ last'.stmt.values.team1_id = last'.stmt.values.team2_id)
             => IF last'.stmt.or_ignore
                THEN /\ last'.error = "none"
                     /\ last'.rowcount = 0
                     /\ store'["matches"] = Before["matches"]
                ELSE /\ last'.error = "IntegrityError"
                     /\ store' = store
          /\ (Executes("update", "matches")
                /\ \E r \in Before["matches"] :
                      /\ r.id = last'.stmt.id
                      /\ \/ /\ "team1_id" \in DOMAIN last'.stmt.set
                            /\ last'.stmt.set.team1_id = r.team2_id
                         \/ /\ "team2_id" \in DOMAIN last'.stmt.set
                            /\ last'.stmt.set.team2_id = r.team1_id)
             => /\ last'.error = "IntegrityError"
                /\ store' = store]_vars

\* An UPDATE that sets team1_id of a stored match to its team2_id has been
\* refused, both teams being stored.
C8_Witness ==
    /\ last.op = "execute_query"
    /\ last.stmt.kind = "update"
    /\ last.stmt.table = "matches"
    /\ "team1_id" \in DOMAIN last.stmt.set
    /\ last.error = "IntegrityError"
    /\ last.stmt.set.team1_id \in RowIds(store["teams"])
    /\ \E r \in store["matches"] :
          r.id = last.stmt.id /\ r.team2_id = last.stmt.set.team1_id

\* C9: no two stored player_stats rows have the same (player_id, match_id),
\* in every reachable state: an INSERT of a row whose pair a stored row has
\* fails with a constraint error, whatever its id, and leaves the committed
\* rows as they were (an INSERT OR IGNORE of such a row is skipped and leaves
\* the player_stats as they were).
C9_OneStatPerPlayerAndMatch ==
    /\ [](store # <<>> =>
            \A a, b \in store["player_stats"] :
                (a.player_id = b.player_id /\ a.match_id = b.match_id) => a = b)
    /\ [][(Executes("insert", "player_stats")
             /\ \E o \in Before["player_stats"] :
                   /\ o.player_id = last'.stmt.values.player_id
                   /\ o.match_id = last'.stmt.values.match_id)
          => IF last'.stmt.or_ignore
             THEN /\ last'.error = "none"
                  /\ last'.rowcount = 0
                  /\ store'["player_stats"] = Before["player_stats"]
             ELSE /\ last'.error = "IntegrityError"
                  /\ store' = store]_vars

\* A second player_stats row for the pair of the stored row, under an id that
\* no row has, has been refused; the stored row is as it was.
C9_Witness ==
    /\ last.op = "execute_query"
    /\ last.stmt.kind = "insert"
    /\ last.stmt.table = "player_stats"
    /\ ~last.stmt.or_ignore
    /\ last.error = "IntegrityError"
    /\ last.stmt.values.id \notin RowIds(store["player_stats"])
    /\ \E o \in store["player_stats"] :
          /\ o.player_id = last.stmt.values.player_id
          /\ o.match_id = last.stmt.values.match_id
          /\ o.goals = 0

\* The error a statement or query gets on a held connection with foreign keys
\* on and nothing uncommitted, on the database db ("none" when it succeeds).
Expected(db, s) ==
    IF s.kind = "select"
    THEN IF s.table \in DOMAIN db THEN "none" ELSE "OperationalError"
    ELSE Engine(db, TRUE, s).error

\* The statement or query of the call that a step makes.
Given == IF last'.op = "execute_query" THEN last'.stmt ELSE last'.query

\* C11: the connection is lazy.  The manager holds no connection after
\* construction and after close(); an execute_query, fetch_all or fetch_one
\* issued while none is held opens one connection and gets what the same call
\* gets on a held connection: it succeeds or raises the engine's error for the
\* statement on the committed file, never an error for the missing connection.
C11_LazyConnection ==
    /\ connection = {}
    /\ [][/\ last'.op = "close" => connection' = {}
          /\ (connection = {} /\ last'.op \in {"execute_query", "fetch_all", "fetch_one"})
             => /\ connection' # {}
                /\ live' = 1
                /\ last'.error = Expected(store, Given)]_vars

\* A fetch_one issued while no connection was held has opened one and found a
\* row that an earlier connection had stored.
C11_Witness ==
    /\ last.op = "fetch_one"
    /\ last.lazy
    /\ last.error = "none"
    /\ last.query.kind = "select"
    /\ last.row \in store[last.query.table]
    /\ connection # {}

\* C12: close() is idempotent.  It raises nothing and leaves no connection
\* held, no connection open and the committed rows as they were; called while
\* no connection is held (before any connect or after a close) it changes
\* nothing at all.
C12_CloseIdempotent ==
    [][last'.op = "close" =>
          /\ last'.error = "none"
          /\ connection' = {}
          /\ live' = 0
          /\ store' = store
          /\ connection = {} => (txn' = txn /\ live' = live)]_vars

\* close() has been called while no connection was held, on a file in which
\* an earlier, since closed connection had stored rows.
C12_Witness ==
    /\ last.op = "close"
    /\ ~last.held
    /\ last.error = "none"
    /\ connection = {}
    /\ store # <<>>
    /\ store["divisions"] # {}

\* The block is left by the step.
Leaves == scope = "in" /\ scope' = "out"

\* C13 as amended: entering the scope returns the manager and opens no
\* connection; the first call in the body opens it; whenever the scope is
\* left, at the end of the body or by an error raised in it, close() has run:
\* no connection is held or open afterwards, the committed rows are as they
\* were, and the error that ended the body is the error the caller gets.
C13_ScopeClosesOnExit ==
    [][/\ last'.op = "enter" => (connection' = connection /\ live' = live)
       /\ (scope = "in" /\ connection = {}
             /\ last'.op \in {"execute_query", "fetch_one", "create_tables"})
          => connection' # {}
       /\ Leaves =>
            /\ last'.op = "exit"
            /\ connection' = {}
            /\ live' = 0
            /\ txn' = {}
            /\ store' = store
            /\ last'.error = last.error]_vars

\* The scope has been left by the constraint error of a call in the body: the
\* caller has the error, no connection is held, the rows stored in the body
\* before the error are in the file.
C13_Witness ==
    /\ last.op = "exit"
    /\ last.error = "IntegrityError"
    /\ scope = "out"
    /\ connection = {}
    /\ live = 0
    /\ store # <<>>
    /\ store["divisions"] # {}

\* C13 as stated: the connection is acquired on entering the scope, and
\* close() is guaranteed on leaving it with the body's error reaching the
\* caller.
C13_AcquiredOnEnter ==
    [][/\ last'.op = "enter" => (connection' # {} /\ live' = 1)
       /\ Leaves =>
            /\ last'.op = "exit"
            /\ connection' = {}
            /\ live' = 0
            /\ last'.error = last.error]_vars

\* The call that a step makes is this fetch of a SELECT on a table that exists.
Selects(op) ==
    /\ last'.op = op
    /\ last'.query.kind = "select"
    /\ last'.query.table \in DOMAIN Before

\* The rows the SELECT of the call matches.
Matched == {r \in Before[last'.query.table] : r.id \in last'.query.ids}

\* C14: fetch_one on a SELECT on an existing table never raises; it returns
\* None when the query matches no row, and a matching row exactly when at
\* least one row matches.
C14_FetchOneNoneWhenNoMatch ==
    [][Selects("fetch_one") =>
          /\ last'.error = "none"
          /\ Matched = {} => last'.row = None
          /\ Matched # {} => last'.row \in Matched]_vars

\* fetch_one has returned None for an id that no row has, on a table that has
\* rows.
C14_Witness ==
    /\ last.op = "fetch_one"
    /\ last.query.kind = "select"
    /\ last.error = "none"
    /\ last.row = None
    /\ store[last.query.table] # {}

\* C16: fetch_all returns every row the query matches, once each, in the
\* order of the query (ascending id); fetch_one on the same query and state
\* returns the first element of that sequence, None when it is empty.
C16_FetchAllInOrder ==
    [][/\ Selects("fetch_all") =>
            /\ last'.error = "none"
            /\ {last'.rows[i] : i \in DOMAIN last'.rows} = Matched
            /\ Len(last'.rows) = Cardinality(Matched)
            /\ \A i, j \in DOMAIN last'.rows :
                  i < j => last'.rows[i].id < last'.rows[j].id
       /\ Selects("fetch_one") =>
            /\ last'.row = IF fetch_all(store, txn, TRUE, last'.query).rows = <<>>
                           THEN None
                           ELSE fetch_all(store, txn, TRUE, last'.query).rows[1]
            /\ Matched # {} => \A r \in Matched : last'.row.id <= r.id]_vars

\* fetch_all has returned three of the six players, in the order of their
\* ids.
C16_Witness ==
    /\ last.op = "fetch_all"
    /\ last.query.table = "players"
    /\ last.error = "none"
    /\ Len(last.rows) = 3
    /\ last.rows[1].id = 2
    /\ last.rows[2].id = 5
    /\ last.rows[3].id = 6
    /\ Cardinality(store["players"]) = 6

\* What fetch_one returns, after the step, for the SELECT of the row of table
\* t with this id.
Found(t, id) ==
    fetch_one(store', txn', TRUE, [kind |-> "select", table |-> t, ids |-> {id}])

\* That fetch_one returns a record whose named fields are the written values.
ReadsBack(t, id, written) ==
    /\ Found(t, id).error = "none"
    /\ Found(t, id).row # None
    /\ \A c \in DOMAIN written : Found(t, id).row[c] = written[c]

\* The id of the row an INSERT has stored: the one written, or the one the
\* engine chose.
InsertedId(stmt) ==
    IF "id" \in DOMAIN stmt.values THEN stmt.values.id
    ELSE (CHOOSE r \in store'[stmt.table] \ Before[stmt.table] : TRUE).id

Operations == {"execute_query", "fetch_all", "fetch_one"}

\* C17: exactly one connection is shared: at most one connection is open at
\* every moment, connect() answers the connection already held on every call
\* until close(), and every execute_query, fetch_all and fetch_one runs
\* through it.
C17_SingleConnection ==
    /\ [](live <= 1 /\ (connection = {} <=> live = 0))
    /\ [][/\ last'.op \in Operations \cup {"connect"} =>
               /\ connection' # {}
               /\ live' = 1
               /\ connection # {} => (connection' = connection /\ live' = live /\ ~last'.lazy)
          /\ (last'.op \notin {"close", "exit"} /\ connection # {}) =>
               connection' = connection]_vars

\* connect() has been called while the connection of earlier inserts was
\* held.
C17_Witness ==
    /\ last.op = "connect"
    /\ ~last.lazy
    /\ connection # {}
    /\ live = 1
    /\ txn = {}
    /\ store # <<>>
    /\ Cardinality(store["divisions"]) = 2

\* The tables that exist once the first n of these statements have run from
\* the state before the step.
After(stmts, n) ==
    DOMAIN Working(RunAll(Started(store, txn), TRUE, SubSeq(stmts, 1, n)).store,
                   RunAll(Started(store, txn), TRUE, SubSeq(stmts, 1, n)).txn)

\* C18: create_tables is idempotent: it raises nothing and leaves exactly the
\* five tables, the ones that were missing empty, each created only after
\* every table it references; on a store that already has them it adds no
\* table and leaves every row unchanged.
C18_CreateTablesIdempotent ==
    [][last'.op = "create_tables" =>
          /\ last'.error = "none"
          /\ DOMAIN store' = TableNames
          /\ Cardinality(TableNames) = 5
          /\ txn' = {}
          /\ \A t \in TableNames :
                store'[t] = IF t \in DOMAIN Before THEN Before[t] ELSE {}
          /\ DOMAIN Before = TableNames => store' = Before
          /\ \A i \in DOMAIN Tables : \A fk \in ForeignKeys :
                fk.child = Tables[i] => fk.parent \in After(Each("create", Tables), i - 1)]_vars

\* create_tables has been called on a store that had the five tables with
\* the rows of the sample tournament, and they are all still stored.
C18_Witness ==
    /\ last.op = "create_tables"
    /\ last.error = "none"
    /\ DOMAIN last.had = TableNames
    /\ last.had["player_stats"] = 6
    /\ Cardinality(store["player_stats"]) = 6
    /\ Cardinality(store["players"]) = 6
    /\ Cardinality(store["divisions"]) = 3

\* C19: drop_tables drops the tables in reverse dependency order, so that the
\* table being dropped is referenced by no table that remains; it raises
\* nothing whatever rows the tables hold and leaves none of the five tables,
\* also when some or all of them are absent before the call.
C19_DropTablesReverseOrder ==
    [][last'.op = "drop_tables" =>
          /\ last'.error = "none"
          /\ store' = <<>>
          /\ txn' = {}
          /\ tables = <<"player_stats", "matches", "players", "teams", "divisions">>
          /\ \A i \in DOMAIN tables : \A fk \in ForeignKeys :
                fk.parent = tables[i] => fk.child \notin After(Each("drop", tables), i - 1)]_vars

\* drop_tables has removed the five tables while they held the rows of the
\* sample tournament.
C19_Witness ==
    /\ last.op = "drop_tables"
    /\ last.error = "none"
    /\ store = <<>>
    /\ DOMAIN last.had = TableNames
    /\ last.had["divisions"] = 3
    /\ last.had["teams"] = 4
    /\ last.had["players"] = 6
    /\ last.had["matches"] = 2
    /\ last.had["player_stats"] = 6

\* drop_tables has been called on a store where the teams and the players
\* tables were missing.
C19_WitnessPartial ==
    /\ last.op = "drop_tables"
    /\ last.error = "none"
    /\ store = <<>>
    /\ DOMAIN last.had = {"divisions", "matches", "player_stats"}
    /\ last.had["divisions"] = 3

\* The freshly created schema: the five tables, all empty.
Fresh == [t \in TableNames |-> {}]

\* What a call of insert_sample_data on the fresh schema leaves.
Fixture == insert_sample_data(Fresh, {}, TRUE).store

\* C20: insert_sample_data on a freshly created empty schema stores exactly
\* 3 divisions, 4 teams, 6 players, 2 matches and 6 player_stats rows with the
\* fixture values, and repeated calls are idempotent: a second call raises
\* nothing and leaves every table as the first call left it.
C20_SampleDataIdempotent ==
    [][last'.op = "insert_sample_data" =>
          /\ Before = Fresh =>
                /\ last'.error = "none"
                /\ txn' = {}
                /\ store'["divisions"] =
                      {[id |-> 1, name |-> "Premier Division"],
                       [id |-> 2, name |-> "Division 1"],
                       [id |-> 3, name |-> "Division 2"]}
                /\ store'["teams"] =
                      {[id |-> 1, name |-> "Red Dragons", division_id |-> 1],
                       [id |-> 2, name |-> "Blue Eagles", division_id |-> 1],
                       [id |-> 3, name |-> "Green Lions", division_id |-> 2],
                       [id |-> 4, name |-> "Yellow Tigers", division_id |-> 2]}
                /\ Cardinality(store'["players"]) = 6
                /\ [id |-> 1, name |-> "Alice Johnson", position |-> "Goal Shooter",
                    team_id |-> 1] \in store'["players"]
                /\ {r.team_id : r \in store'["players"]} = {1, 2, 3}
                /\ Cardinality(store'["matches"]) = 2
                /\ [id |-> 1, date |-> "2024-01-15", division_id |-> 1, team1_id |-> 1,
                    team2_id |-> 2, team1_score |-> 45, team2_score |-> 42]
                      \in store'["matches"]
                /\ Cardinality(store'["player_stats"]) = 6
                /\ \E r \in store'["player_stats"] :
                      /\ r.id = 1 /\ r.player_id = 1 /\ r.match_id = 1
                      /\ r.attempts = 15 /\ r.goals = 12 /\ r.turnovers = 2
                /\ store' = Fixture
          /\ Before = Fixture => (last'.error = "none" /\ store' = Before)
          /\ last'.error = "none" =>
                /\ insert_sample_data(store', txn', TRUE).error = "none"
                /\ insert_sample_data(store', txn', TRUE).store = store']_vars

\* insert_sample_data has been called a second time, on the sample
\* tournament as the first call stored it.
C20_Witness ==
    /\ last.op = "insert_sample_data"
    /\ last.error = "none"
    /\ DOMAIN last.had = TableNames
    /\ last.had["divisions"] = 3
    /\ last.had["teams"] = 4
    /\ last.had["players"] = 6
    /\ last.had["matches"] = 2
    /\ last.had["player_stats"] = 6
    /\ store = Fixture

\* The query that an operation of the schema manager makes of its argument.
QueryOf(op, table_name) ==
    IF op = "table_exists" THEN table_exists(table_name) ELSE get_foreign_keys(table_name)

\* C21: caller-supplied values reach the engine only as bound parameters: for
\* table_exists and get_foreign_keys the statement text that is executed is
\* the same for any two values of the caller's argument.
C21_TextIndependentOfArguments ==
    [][last'.op \in {"table_exists", "get_foreign_keys"} =>
          \A other \in Names : QueryOf(last'.op, other).text = last'.query.text]_vars

\* C22: a failure of the engine in execute_query, fetch_all or fetch_one
\* reaches the caller as the engine's own error kind (IntegrityError for a
\* constraint violation, OperationalError for a malformed statement or a
\* missing table), and the statement is submitted to the engine once per
\* call, whether it fails or not.
C22_ErrorsPropagateNoRetry ==
    [][last'.op \in Operations =>
          /\ last'.executions = 1
          /\ last'.error = Expected(Before, Given)
          /\ last'.error \in {"none", "IntegrityError", "OperationalError"}
          /\ Given.kind = "malformed" => last'.error = "OperationalError"
          /\ (Given.kind # "malformed" /\ Given.table \notin DOMAIN Before) =>
                last'.error = "OperationalError"
          /\ (IsDML(Given) /\ Given.table \in DOMAIN Before /\ last'.error # "none") =>
                last'.error = "IntegrityError"]_vars

\* execute_query has raised the IntegrityError of a refused insert after
\* submitting it once.
C22_Witness ==
    /\ last.op = "execute_query"
    /\ last.stmt.kind = "insert"
    /\ last.error = "IntegrityError"
    /\ last.executions = 1
    /\ store # <<>>

\* fetch_one has raised the OperationalError of a query on a missing table.
C22_WitnessFetch ==
    /\ last.op = "fetch_one"
    /\ last.query.kind = "select"
    /\ last.error = "OperationalError"
    /\ last.executions = 1

\* The rows of the statement's table that its WHERE id = ? matches.
Touched == {r \in Before[last'.stmt.table] : r.id = last'.stmt.id}

\* C23: execute_query returns the number of rows the statement affected: 1
\* for an insert that stores its row, 0 for an INSERT OR IGNORE that is
\* ignored; for an update or delete, 1 when the row with the id exists and 0,
\* without raising, when the predicate matches no row.
C23_RowCount ==
    [][(last'.op = "execute_query" /\ last'.error = "none" /\ IsDML(last'.stmt)) =>
          /\ last'.rowcount \in {0, 1}
          /\ last'.stmt.kind = "insert" =>
                /\ last'.rowcount =
                      Cardinality(store'[last'.stmt.table])
                      - Cardinality(Before[last'.stmt.table])
                /\ last'.rowcount = 0 => (last'.stmt.or_ignore /\ store' = Before)
          /\ last'.stmt.kind \in {"update", "delete"} =>
                /\ last'.rowcount = Cardinality(Touched)
                /\ last'.rowcount = 0 => store' = Before
          /\ last'.stmt.kind = "delete" =>
                last'.rowcount =
                      Cardinality(Before[last'.stmt.table])
                      - Cardinality(store'[last'.stmt.table])
          /\ last'.stmt.kind = "update" =>
                Cardinality(store'[last'.stmt.table]) = Cardinality(Before[last'.stmt.table])]_vars

\* An INSERT OR IGNORE of a row that collides with a stored one has returned 0.
C23_Witness ==
    /\ last.op = "execute_query"
    /\ last.error = "none"
    /\ last.stmt.kind = "insert"
    /\ last.stmt.or_ignore
    /\ last.rowcount = 0
    /\ store[last.stmt.table] # {}

\* C24: deleting the selected team through the widget.  A step removes a row
\* of teams only when it is delete_team with a team selected and the
\* confirmation answered Yes; that step removes exactly the selected team and
\* the players of that team, passes one DELETE to execute_query, and leaves
\* both table models holding what their queries return on the new store.  A
\* delete_team with no team selected or with the answer No passes nothing to
\* execute_query and leaves the store and the transaction as they were.
C24_DeleteTeamConfirmed ==
    [][/\ last'.op = "delete_team" =>
            IF last'.id # 0 /\ last'.reply = "Yes"
            THEN /\ last'.issued = <<DeleteOf("teams", last'.id)>>
                 /\ last'.error = "none"
                 /\ store'["teams"] = {r \in store["teams"] : r.id # last'.id}
                 /\ Cardinality(store'["teams"]) = Cardinality(store["teams"]) - 1
                 /\ store'["players"] = {r \in store["players"] : r.team_id # last'.id}
                 /\ store'["divisions"] = store["divisions"]
                 /\ txn' = {}
                 /\ ui'.teams_data = View(store', TeamsQuery).rows
                 /\ ui'.players_data = View(store', PlayersQuery).rows
            ELSE /\ last'.issued = <<>>
                 /\ store' = store
                 /\ txn' = txn
       /\ (ui.open /\ RowIds(store["teams"]) \ RowIds(store'["teams"]) # {})
            => (last'.op = "delete_team" /\ last'.id # 0 /\ last'.reply = "Yes")]_vars

\* A confirmed delete_team has removed a team together with a player of it.
C24_Witness ==
    /\ last.op = "delete_team"
    /\ last.reply = "Yes"
    /\ last.issued # <<>>
    /\ Cardinality(store["teams"]) = last.had["teams"] - 1
    /\ Cardinality(store["players"]) < last.had["players"]
    /\ store["teams"] # {}

\* A delete_team answered No, with a team selected.
C24_WitnessNo ==
    /\ last.op = "delete_team"
    /\ last.id # 0
    /\ last.reply = "No"
    /\ store["players"] # {}

\* The texts that are empty once the surrounding whitespace is removed.
Blank == {"", " ", "  "}

\* The table a dialog writes to.
Target == IF ui.dialog.kind = "team" THEN "teams" ELSE "players"

\* C25: the add/edit dialogs.  While a dialog is open the store changes only
\* in a Save step whose name is not blank and whose combo box has a current
\* item.  A Save with a blank name or without a division/team to select, and
\* a Cancel, pass nothing to execute_query, leave store and transaction
\* unchanged and do not accept the dialog (after a failed Save it stays open).
\* A valid Save passes exactly one statement and is accepted; the name it
\* stores is the text without surrounding whitespace.  For a dialog opened on
\* a row that statement is an UPDATE of that id: every table keeps its number
\* of rows and every other row is unchanged; for an add dialog it is an
\* INSERT that adds one row.
C25_DialogWritesOnValidSave ==
    [][/\ (ui.dialog # NoDialog /\ store' # store)
            => /\ last'.op \in {"save_team", "save_player"}
               /\ last'.text \notin Blank
               /\ ui.dialog.items # <<>>
       /\ (last'.op \in {"add_team", "edit_team", "add_player", "edit_player", "cancel"})
            => /\ store' = store
               /\ txn' = txn
               /\ last'.issued = <<>>
       /\ last'.op = "cancel" => (~last'.accepted /\ ui'.dialog = NoDialog)
       /\ last'.op \in {"save_team", "save_player"} =>
            IF last'.text \in Blank \/ ui.dialog.items = <<>>
            THEN /\ store' = store
                 /\ txn' = txn
                 /\ last'.issued = <<>>
                 /\ ~last'.accepted
                 /\ ui'.dialog = ui.dialog
            ELSE /\ Len(last'.issued) = 1
                 /\ last'.issued[1].table = Target
                 /\ last'.accepted
                 /\ last'.error = "none"
                 /\ ui'.dialog = NoDialog
                 /\ txn' = {}
                 /\ \A u \in DOMAIN store \ {Target} : store'[u] = store[u]
                 /\ IF ui.dialog.id # 0
                    THEN /\ last'.issued[1].kind = "update"
                         /\ last'.issued[1].id = ui.dialog.id
                         /\ \A u \in DOMAIN store :
                               Cardinality(store'[u]) = Cardinality(store[u])
                         /\ {r \in store'[Target] : r.id # ui.dialog.id}
                               = {r \in store[Target] : r.id # ui.dialog.id}
                         /\ \E r \in store'[Target] :
                               r.id = ui.dialog.id /\ r.name \notin Blank
                               /\ r.name \in {"Red Dragons", "Blue Thunder", "Alice Johnson"}
                    ELSE /\ last'.issued[1].kind = "insert"
                         /\ store[Target] \subseteq store'[Target]
                         /\ Cardinality(store'[Target]) = Cardinality(store[Target]) + 1
                         /\ \A r \in store'[Target] \ store[Target] :
                               r.name \in {"Red Dragons", "Blue Thunder", "Alice Johnson"}]_vars

\* An edit dialog has renamed team 1, typed with surrounding blanks, while
\* another team is stored.
C25_Witness ==
    /\ last.op = "save_team"
    /\ last.id = 1
    /\ last.text = " Blue Thunder "
    /\ last.accepted
    /\ \E r \in store["teams"] : r.id = 1 /\ r.name = "Blue Thunder"
    /\ Cardinality(store["teams"]) = 2

\* A Save with a name of blanks only was refused while a division could be
\* selected.
C25_WitnessInvalid ==
    /\ last.op = "save_team"
    /\ last.text = "  "
    /\ ~last.accepted
    /\ ui.dialog.kind = "team"
    /\ ui.dialog.items # <<>>

\* The steps that end an add, an edit or a delete of a team or a player.
Completes ==
    last'.op \in {"save_team", "save_player", "delete_team", "delete_player", "cancel"}

\* C26: the widget owns no data.  After every step that ends an add, an edit
\* or a delete of a team or a player, the rows held by the teams table model
\* and by the players table model, the players' team_name included, are the
\* rows their queries return on the store at that moment.
C26_ModelsShowTheStore ==
    [][Completes =>
          /\ ui'.teams_data = View(store', TeamsQuery).rows
          /\ ui'.players_data = View(store', PlayersQuery).rows]_vars

\* The rows of the committed file that the SELECT of the call matches.
Committed == {r \in store[last'.query.table] : r.id \in last'.query.ids}

\* C27: each execute_query is its own transaction.  When execute_query
\* returns or raises, the connection has no open transaction: a statement
\* that succeeded is in the file, a statement that failed has left the file
\* as it was.  close() leaves the file as it is, so it never discards what an
\* earlier execute_query has stored, and a fetch that reconnects lazily after
\* it reads the rows of the file.
C27_ExecuteQueryOwnTransaction ==
    [][/\ last'.op = "execute_query" =>
            /\ txn' = {}
            /\ last'.error = "none" => store' = Answer.db
            /\ last'.error # "none" => store' = store
       /\ last'.op = "close" =>
            /\ store' = store
            /\ txn' = {}
            /\ connection' = {}
       /\ connection = {} => txn = {}
       /\ (Selects("fetch_all") /\ last'.lazy) =>
            /\ last'.error = "none"
            /\ {last'.rows[i] : i \in DOMAIN last'.rows} = Committed
            /\ store' = store
       /\ (Selects("fetch_one") /\ last'.lazy) =>
            /\ last'.error = "none"
            /\ Committed # {} => last'.row \in Committed
            /\ Committed = {} => last'.row = None]_vars

\* A fetch on a new connection has returned rows: they were stored by an
\* execute_query on a connection that has since been closed.
C27_Witness ==
    /\ last.op = "fetch_all"
    /\ last.lazy
    /\ last.query.kind = "select"
    /\ last.query.table = "teams"
    /\ last.rows # <<>>
    /\ txn = {}

\* C28: insert_sample_data never raises once the five tables exist, whatever
\* rows successful inserts, updates and deletes have left in them: every
\* fixture insert stores its row or is skipped, and afterwards every stored
\* row has the rows it references.
C28_SampleDataNeverRaises ==
    [][(last'.op = "insert_sample_data" /\ DOMAIN Before = TableNames) =>
          /\ last'.error = "none"
          /\ \A fk \in ForeignKeys : \A row \in store'[fk.child] :
                HasParent(store', fk, row)]_vars

\* What a caller can observe of a call: what execute_query raises or returns
\* and leaves in the file; what a fetch raises or returns and what the
\* connection sees after it.
Outcome(r) == <<r.error, r.rowcount, r.store>>

Fetched(r) == <<r.error, r.rows, Working(r.store, r.txn)>>

\* Every next call has the same outcome on the manager after the step as on
\* the manager before it.
SameNextCall ==
    /\ \A s \in InspectStatements :
          Outcome(execute_query(store', txn', last'.foreign_keys, s))
            = Outcome(execute_query(store, txn, last'.foreign_keys, s))
    /\ \A q \in InspectQueries :
          Fetched(fetch_all(store', txn', last'.foreign_keys, q))
            = Fetched(fetch_all(store, txn, last'.foreign_keys, q))

\* The step is a call of execute_query, fetch_all or fetch_one that raises.
Fails == last'.op \in Operations /\ last'.error # "none"

\* The connection holds a write that was passed to fetch_all or fetch_one and
\* has not been committed.
Pending == Working(store, txn) # store

\* The manager keeps its connection over a call that raises (the call opens
\* one if there was none), and the file is as before the call.
StaysOpen ==
    /\ connection' # {}
    /\ connection # {} => (connection' = connection /\ live' = live)
    /\ store' = store

Fetches ==
    last'.op \in {"fetch_all", "fetch_one", "table_exists", "get_table_names",
                  "get_foreign_keys"}

\* The fetch of the step runs a SELECT or a PRAGMA that reads.
Reads == Fetches /\ last'.query.kind \in {"select", "text"}

\* Of the manager only the connection changes, and only from None to a new
\* connection.
OpensAtMost ==
    /\ connection # {} => (connection' = connection /\ live' = live)
    /\ connection = {} => (Cardinality(connection') = 1 /\ live' = live + 1)

\* What database_exists leaves and returns.
ExistsOnly ==
    last'.op = "database_exists" =>
        /\ UNCHANGED <<store, txn, connection, live, file>>
        /\ last'.returned = file

C30_WitnessExists ==
    \/ last.op = "database_exists" /\ ~last.returned /\ connection = {}
    \/ last.op = "table_exists" /\ last.lazy
====
